---- MODULE Spec2Model ----
(***************************************************************************)
(* Model of the EncryptedStorage engine (class EncryptedStorage): the      *)
(* cipher paths, the key manager, the three storage backends and the       *)
(* save / load / clearAll facade.                                          *)
(*                                                                         *)
(* JavaScript strings are sequences of UTF-16 code units (integers).       *)
(* JavaScript values are records [t |-> tag, v |-> payload].               *)
(***************************************************************************)
EXTENDS Integers, Sequences, FiniteSets, TLC

(***************************************************************************)
(* Bounds of the model (not program constants).                            *)
(***************************************************************************)
\* how many saveEncrypted calls one run performs
MaxSaves == 2
\* how many random values (keys, IVs) one run draws
MaxRandom == 5
\* how many calls are in flight at the same time
MaxCalls == 2
\* how many characters of a stored envelope can be changed, from the first
MaxEnvelope == 48
\* how long the plaintexts given to the fallback cipher are at most
MaxPlain == 3
\* how many timers the page makes in a run
MaxTimers == 3
\* how far the clock of the page runs, in milliseconds
MaxTime == 2000
\* how many times auto-sync is started in a run
MaxSyncStarts == 5

(***************************************************************************)
(* Integer helpers                                                         *)
(***************************************************************************)
RECURSIVE Xor(_, _)
\* a ^ b on non-negative integers
Xor(a, b) ==
    IF a = 0 THEN b
    ELSE IF b = 0 THEN a
    ELSE ((a + b) % 2) + 2 * Xor(a \div 2, b \div 2)

RECURSIVE Pow(_, _)
Pow(b, n) == IF n = 0 THEN 1 ELSE b * Pow(b, n - 1)

RECURSIVE Concat(_)
\* the concatenation of a sequence of sequences
Concat(ss) == IF ss = << >> THEN << >> ELSE Head(ss) \o Concat(Tail(ss))

(***************************************************************************)
(* JavaScript values                                                       *)
(***************************************************************************)
JSNull == [t |-> "null", v |-> 0]
JSBool(b) == [t |-> "bool", v |-> b]
JSStr(s) == [t |-> "str", v |-> s]
JSArr(a) == [t |-> "arr", v |-> a]
\* an object: its members in insertion order, each <<name, value>>
JSObj(m) == [t |-> "obj", v |-> m]

RECURSIVE NormNum(_, _)
\* a number m * 10^e, with m not divisible by 10 (0 is <<0, 0>>)
NormNum(m, e) ==
    IF m = 0 THEN <<0, 0>>
    ELSE IF m % 10 = 0 THEN NormNum(m \div 10, e + 1)
    ELSE <<m, e>>

JSNum(n) == [t |-> "num", v |-> NormNum(n, 0)]

\* x === true
IsTrue(x) == x.t = "bool" /\ x.v

\* x === false
IsFalse(x) == x.t = "bool" /\ ~x.v

\* x === null
IsNull(x) == x.t = "null"

RECURSIVE SameValue(_, _)
\* deep equality of two values: same type and same content
SameValue(x, y) ==
    /\ x.t = y.t
    /\ IF x.t = "arr" THEN
           /\ Len(x.v) = Len(y.v)
           /\ \A i \in 1..Len(x.v) : SameValue(x.v[i], y.v[i])
       ELSE IF x.t = "obj" THEN
           /\ Len(x.v) = Len(y.v)
           /\ \A i \in 1..Len(x.v) :
                 x.v[i][1] = y.v[i][1] /\ SameValue(x.v[i][2], y.v[i][2])
       ELSE x.v = y.v

\* ToBoolean, as used by `if (x)` and `!x`
Truthy(x) ==
    CASE x.t = "null" -> FALSE
      [] x.t = "undef" -> FALSE
      [] x.t = "bool" -> x.v
      [] x.t = "str" -> x.v # << >>
      [] x.t = "num" -> x.v[1] # 0
      [] OTHER -> TRUE

(***************************************************************************)
(* Text encodings                                                          *)
(***************************************************************************)
\* stringToBytes: each code unit masked with 0xFF
stringToBytes(str) == [i \in 1..Len(str) |-> str[i] % 256]

\* bytesToString: String.fromCharCode(...bytes)
bytesToString(bytes) == [i \in 1..Len(bytes) |-> bytes[i] % 65536]

\* the i-th character (0..63) of the base64 alphabet
B64Char(i) ==
    IF i < 26 THEN 65 + i
    ELSE IF i < 52 THEN 71 + i
    ELSE IF i < 62 THEN i - 4
    ELSE IF i = 62 THEN 43 ELSE 47

\* the value of a base64 character, -1 when it is not in the alphabet
B64Val(c) ==
    IF c >= 65 /\ c <= 90 THEN c - 65
    ELSE IF c >= 97 /\ c <= 122 THEN c - 71
    ELSE IF c >= 48 /\ c <= 57 THEN c + 4
    ELSE IF c = 43 THEN 62
    ELSE IF c = 47 THEN 63 ELSE -1

RECURSIVE B64Encode(_)
B64Encode(b) ==
    IF Len(b) = 0 THEN << >>
    ELSE IF Len(b) = 1 THEN
        << B64Char(b[1] \div 4), B64Char((b[1] % 4) * 16), 61, 61 >>
    ELSE IF Len(b) = 2 THEN
        << B64Char(b[1] \div 4), B64Char((b[1] % 4) * 16 + (b[2] \div 16)),
           B64Char((b[2] % 16) * 4), 61 >>
    ELSE
        << B64Char(b[1] \div 4), B64Char((b[1] % 4) * 16 + (b[2] \div 16)),
           B64Char((b[2] % 16) * 4 + (b[3] \div 64)), B64Char(b[3] % 64) >>
        \o B64Encode(SubSeq(b, 4, Len(b)))

\* btoa: throws (ok = FALSE) when a character is above 0xFF
btoa(str) ==
    IF \E i \in 1..Len(str) : str[i] > 255
    THEN [ok |-> FALSE, v |-> << >>]
    ELSE [ok |-> TRUE, v |-> B64Encode(str)]

RECURSIVE B64Decode(_)
\* the bytes of a sequence of base64 values (no padding), leftover bits dropped
B64Decode(q) ==
    IF Len(q) < 2 THEN << >>
    ELSE IF Len(q) = 2 THEN << q[1] * 4 + (q[2] \div 16) >>
    ELSE IF Len(q) = 3 THEN
        << q[1] * 4 + (q[2] \div 16), (q[2] % 16) * 16 + (q[3] \div 4) >>
    ELSE
        << q[1] * 4 + (q[2] \div 16), (q[2] % 16) * 16 + (q[3] \div 4),
           (q[3] % 4) * 64 + q[4] >>
        \o B64Decode(SubSeq(q, 5, Len(q)))

\* atob (forgiving-base64 decode): ASCII whitespace is removed, one or two
\* trailing '=' are dropped when the length is a multiple of 4, and any other
\* character outside the alphabet, or a length of 4n+1, throws
atob(str) ==
    LET ws == {9, 10, 12, 13, 32}
        s1 == SelectSeq(str, LAMBDA c : c \notin ws)
        n1 == Len(s1)
        s2 == IF n1 > 0 /\ n1 % 4 = 0 /\ s1[n1] = 61
              THEN IF s1[n1 - 1] = 61 THEN SubSeq(s1, 1, n1 - 2)
                   ELSE SubSeq(s1, 1, n1 - 1)
              ELSE s1
    IN  IF Len(s2) % 4 = 1 \/ \E i \in 1..Len(s2) : B64Val(s2[i]) < 0
        THEN [ok |-> FALSE, v |-> << >>]
        ELSE [ok |-> TRUE, v |-> B64Decode([i \in 1..Len(s2) |-> B64Val(s2[i])])]

\* bytesToBase64 / arrayBufferToBase64
bytesToBase64(bytes) == btoa(bytesToString(bytes))

\* base64ToBytes / base64ToArrayBuffer
base64ToBytes(base64) == atob(base64)

RECURSIVE Utf8Encode(_)
\* TextEncoder.encode: the UTF-8 bytes of a string of UTF-16 code units; a lone
\* surrogate becomes U+FFFD
Utf8Encode(s) ==
    IF s = << >> THEN << >>
    ELSE LET c == s[1]
             rest == Utf8Encode(Tail(s))
         IN  IF c < 128 THEN <<c>> \o rest
             ELSE IF c < 2048 THEN <<192 + (c \div 64), 128 + (c % 64)>> \o rest
             ELSE IF c >= 55296 /\ c <= 56319 /\ Len(s) >= 2
                     /\ s[2] >= 56320 /\ s[2] <= 57343 THEN
                 LET cp == 65536 + (c - 55296) * 1024 + (s[2] - 56320)
                 IN  << 240 + (cp \div 262144), 128 + ((cp \div 4096) % 64),
                        128 + ((cp \div 64) % 64), 128 + (cp % 64) >>
                     \o Utf8Encode(SubSeq(s, 3, Len(s)))
             ELSE IF c >= 55296 /\ c <= 57343 THEN <<239, 191, 189>> \o rest
             ELSE << 224 + (c \div 4096), 128 + ((c \div 64) % 64), 128 + (c % 64) >>
                  \o rest

RECURSIVE Utf8Decode(_)
\* TextDecoder.decode (not fatal): a malformed byte becomes U+FFFD
Utf8Decode(b) ==
    IF b = << >> THEN << >>
    ELSE LET c == b[1]
             cont(i) == Len(b) >= i /\ b[i] >= 128 /\ b[i] <= 191
         IN  IF c < 128 THEN <<c>> \o Utf8Decode(Tail(b))
             ELSE IF c >= 194 /\ c <= 223 /\ cont(2) THEN
                 << (c - 192) * 64 + (b[2] - 128) >> \o Utf8Decode(SubSeq(b, 3, Len(b)))
             ELSE IF c >= 224 /\ c <= 239 /\ cont(2) /\ cont(3)
                     /\ (c - 224) * 4096 + (b[2] - 128) * 64 + (b[3] - 128) >= 2048
                     /\ ~((c - 224) * 4096 + (b[2] - 128) * 64 >= 55296
                          /\ (c - 224) * 4096 + (b[2] - 128) * 64 <= 57343) THEN
                 << (c - 224) * 4096 + (b[2] - 128) * 64 + (b[3] - 128) >>
                 \o Utf8Decode(SubSeq(b, 4, Len(b)))
             ELSE IF c >= 240 /\ c <= 244 /\ cont(2) /\ cont(3) /\ cont(4)
                     /\ (c - 240) * 262144 + (b[2] - 128) * 4096 >= 65536
                     /\ (c - 240) * 262144 + (b[2] - 128) * 4096 < 1114112 THEN
                 LET cp == (c - 240) * 262144 + (b[2] - 128) * 4096
                           + (b[3] - 128) * 64 + (b[4] - 128) - 65536
                 IN  << 55296 + (cp \div 1024), 56320 + (cp % 1024) >>
                     \o Utf8Decode(SubSeq(b, 5, Len(b)))
             ELSE <<65533>> \o Utf8Decode(Tail(b))

(***************************************************************************)
(* JSON.stringify                                                          *)
(***************************************************************************)
RECURSIVE Digits(_)
\* the decimal digits of a non-negative integer
Digits(n) == IF n < 10 THEN <<48 + n>> ELSE Digits(n \div 10) \o <<48 + (n % 10)>>

RECURSIVE Zeros(_)
Zeros(n) == IF n <= 0 THEN << >> ELSE <<48>> \o Zeros(n - 1)

\* Number::toString of the number num = <<m, e>>, that is m * 10^e
NumberToString(num) ==
    LET m == num[1]
        s == Digits(IF m < 0 THEN 0 - m ELSE m)
        k == Len(s)
        n == k + num[2]
        sign == IF m < 0 THEN <<45>> ELSE << >>
        expo == (IF n - 1 < 0 THEN <<101, 45>> \o Digits(1 - n)
                 ELSE <<101, 43>> \o Digits(n - 1))
    IN  IF m = 0 THEN <<48>>
        ELSE IF k <= n /\ n <= 21 THEN sign \o s \o Zeros(n - k)
        ELSE IF 0 < n /\ n <= 21 THEN
            sign \o SubSeq(s, 1, n) \o <<46>> \o SubSeq(s, n + 1, k)
        ELSE IF -6 < n /\ n <= 0 THEN sign \o <<48, 46>> \o Zeros(0 - n) \o s
        ELSE IF k = 1 THEN sign \o s \o expo
        ELSE sign \o <<s[1], 46>> \o SubSeq(s, 2, k) \o expo

\* a lower-case hexadecimal digit
HexDigit(n) == IF n < 10 THEN 48 + n ELSE 87 + n

UnicodeEscape(c) ==
    << 92, 117, HexDigit(c \div 4096), HexDigit((c \div 256) % 16),
       HexDigit((c \div 16) % 16), HexDigit(c % 16) >>

RECURSIVE QuoteChars(_)
\* QuoteJSONString without the enclosing quotes
QuoteChars(s) ==
    IF s = << >> THEN << >>
    ELSE LET c == s[1]
             rest == QuoteChars(Tail(s))
         IN  IF c = 34 THEN <<92, 34>> \o rest
             ELSE IF c = 92 THEN <<92, 92>> \o rest
             ELSE IF c = 8 THEN <<92, 98>> \o rest
             ELSE IF c = 12 THEN <<92, 102>> \o rest
             ELSE IF c = 10 THEN <<92, 110>> \o rest
             ELSE IF c = 13 THEN <<92, 114>> \o rest
             ELSE IF c = 9 THEN <<92, 116>> \o rest
             ELSE IF c < 32 THEN UnicodeEscape(c) \o rest
             ELSE IF c >= 55296 /\ c <= 56319 /\ Len(s) >= 2
                     /\ s[2] >= 56320 /\ s[2] <= 57343 THEN
                 <<c, s[2]>> \o QuoteChars(SubSeq(s, 3, Len(s)))
             ELSE IF c >= 55296 /\ c <= 57343 THEN UnicodeEscape(c) \o rest
             ELSE <<c>> \o rest

QuoteJSONString(s) == <<34>> \o QuoteChars(s) \o <<34>>

RECURSIVE JSONStringify(_)
\* JSON.stringify(x) of a JSON-serializable value, with no indentation
JSONStringify(x) ==
    CASE x.t = "str" -> QuoteJSONString(x.v)
      [] x.t = "num" -> NumberToString(x.v)
      [] x.t = "bool" -> IF x.v THEN <<116, 114, 117, 101>>
                         ELSE <<102, 97, 108, 115, 101>>
      [] x.t = "null" -> <<110, 117, 108, 108>>
      [] x.t = "bytes" ->
            <<91>>
            \o Concat([i \in 1..Len(x.v) |->
                  (IF i > 1 THEN <<44>> ELSE << >>) \o Digits(x.v[i])])
            \o <<93>>
      [] x.t = "arr" ->
            <<91>>
            \o Concat([i \in 1..Len(x.v) |->
                  (IF i > 1 THEN <<44>> ELSE << >>) \o JSONStringify(x.v[i])])
            \o <<93>>
      [] x.t = "obj" ->
            <<123>>
            \o Concat([i \in 1..Len(x.v) |->
                  (IF i > 1 THEN <<44>> ELSE << >>)
                  \o QuoteJSONString(x.v[i][1]) \o <<58>> \o JSONStringify(x.v[i][2])])
            \o <<125>>

(***************************************************************************)
(* JSON.parse                                                              *)
(***************************************************************************)
PFail == [ok |-> FALSE, val |-> JSNull, pos |-> 0]
POk(v, p) == [ok |-> TRUE, val |-> v, pos |-> p]

RECURSIVE SkipWs(_, _)
\* the first index at or after i that holds no JSON white space
SkipWs(s, i) ==
    IF i <= Len(s) /\ s[i] \in {9, 10, 13, 32} THEN SkipWs(s, i + 1) ELSE i

RECURSIVE ScanDigits(_, _)
\* the first index at or after i that holds no decimal digit
ScanDigits(s, i) ==
    IF i <= Len(s) /\ s[i] >= 48 /\ s[i] <= 57 THEN ScanDigits(s, i + 1) ELSE i

RECURSIVE DigitsValue(_, _, _)
\* the value of the digits s[i], ..., s[j - 1]
DigitsValue(s, i, j) ==
    IF i >= j THEN 0 ELSE DigitsValue(s, i, j - 1) * 10 + (s[j - 1] - 48)

\* a JSON number starting at i: -? (0 | [1-9][0-9]*) (. [0-9]+)? ([eE] [+-]? [0-9]+)?
ParseNumber(s, i) ==
    LET neg == i <= Len(s) /\ s[i] = 45
        i1 == IF neg THEN i + 1 ELSE i
        i2 == ScanDigits(s, i1)
        intOk == i2 > i1 /\ (s[i1] # 48 \/ i2 = i1 + 1)
        hasFrac == i2 <= Len(s) /\ s[i2] = 46
        i3 == IF hasFrac THEN ScanDigits(s, i2 + 1) ELSE i2
        fracOk == ~hasFrac \/ i3 > i2 + 1
        hasExp == i3 <= Len(s) /\ s[i3] \in {69, 101}
        hasSign == hasExp /\ i3 + 1 <= Len(s) /\ s[i3 + 1] \in {43, 45}
        i4 == IF hasExp THEN (IF hasSign THEN i3 + 2 ELSE i3 + 1) ELSE i3
        i5 == IF hasExp THEN ScanDigits(s, i4) ELSE i3
        expOk == ~hasExp \/ i5 > i4
        fracLen == IF hasFrac THEN i3 - (i2 + 1) ELSE 0
        mant == DigitsValue(s, i1, i2) * Pow(10, fracLen)
                + (IF hasFrac THEN DigitsValue(s, i2 + 1, i3) ELSE 0)
        expAbs == IF hasExp THEN DigitsValue(s, i4, i5) ELSE 0
        expo == IF hasSign /\ s[i3 + 1] = 45 THEN 0 - expAbs ELSE expAbs
    IN  IF intOk /\ fracOk /\ expOk
        THEN POk([t |-> "num",
                  v |-> NormNum(IF neg THEN 0 - mant ELSE mant, expo - fracLen)], i5)
        ELSE PFail

\* the value of a hexadecimal digit, -1 when it is none
HexVal(c) ==
    IF c >= 48 /\ c <= 57 THEN c - 48
    ELSE IF c >= 97 /\ c <= 102 THEN c - 87
    ELSE IF c >= 65 /\ c <= 70 THEN c - 55 ELSE -1

RECURSIVE ParseChars(_, _, _)
\* the characters of a JSON string whose opening quote precedes index i
ParseChars(s, i, acc) ==
    IF i > Len(s) THEN PFail
    ELSE IF s[i] = 34 THEN POk(JSStr(acc), i + 1)
    ELSE IF s[i] < 32 THEN PFail
    ELSE IF s[i] # 92 THEN ParseChars(s, i + 1, Append(acc, s[i]))
    ELSE IF i + 1 > Len(s) THEN PFail
    ELSE LET c == s[i + 1]
         IN  IF c \in {34, 47, 92} THEN ParseChars(s, i + 2, Append(acc, c))
             ELSE IF c = 98 THEN ParseChars(s, i + 2, Append(acc, 8))
             ELSE IF c = 102 THEN ParseChars(s, i + 2, Append(acc, 12))
             ELSE IF c = 110 THEN ParseChars(s, i + 2, Append(acc, 10))
             ELSE IF c = 114 THEN ParseChars(s, i + 2, Append(acc, 13))
             ELSE IF c = 116 THEN ParseChars(s, i + 2, Append(acc, 9))
             ELSE IF c = 117 /\ i + 5 <= Len(s)
                     /\ \A j \in (i + 2)..(i + 5) : HexVal(s[j]) >= 0 THEN
                 ParseChars(s, i + 6,
                     Append(acc, HexVal(s[i + 2]) * 4096 + HexVal(s[i + 3]) * 256
                                 + HexVal(s[i + 4]) * 16 + HexVal(s[i + 5])))
             ELSE PFail

\* whether the literal lit stands at index i of s
MatchAt(s, i, lit) ==
    i + Len(lit) - 1 <= Len(s) /\ SubSeq(s, i, i + Len(lit) - 1) = lit

\* the members acc with member name set to val (a repeated name keeps its place)
PutMember(acc, name, val) ==
    IF \E i \in 1..Len(acc) : acc[i][1] = name
    THEN [i \in 1..Len(acc) |-> IF acc[i][1] = name THEN <<name, val>> ELSE acc[i]]
    ELSE Append(acc, <<name, val>>)

RECURSIVE ParseValue(_, _)
RECURSIVE ParseElements(_, _, _)
RECURSIVE ParseMembers(_, _, _)
\* a JSON value starting at or after index i (white space skipped)
ParseValue(s, i0) ==
    LET i == SkipWs(s, i0)
    IN  IF i > Len(s) THEN PFail
        ELSE IF s[i] = 34 THEN ParseChars(s, i + 1, << >>)
        ELSE IF s[i] = 91 THEN
            LET j == SkipWs(s, i + 1)
            IN  IF j <= Len(s) /\ s[j] = 93 THEN POk(JSArr(<< >>), j + 1)
                ELSE ParseElements(s, j, << >>)
        ELSE IF s[i] = 123 THEN
            LET j == SkipWs(s, i + 1)
            IN  IF j <= Len(s) /\ s[j] = 125 THEN POk(JSObj(<< >>), j + 1)
                ELSE ParseMembers(s, j, << >>)
        ELSE IF s[i] = 45 \/ (s[i] >= 48 /\ s[i] <= 57) THEN ParseNumber(s, i)
        ELSE IF MatchAt(s, i, <<116, 114, 117, 101>>) THEN POk(JSBool(TRUE), i + 4)
        ELSE IF MatchAt(s, i, <<102, 97, 108, 115, 101>>) THEN POk(JSBool(FALSE), i + 5)
        ELSE IF MatchAt(s, i, <<110, 117, 108, 108>>) THEN POk(JSNull, i + 4)
        ELSE PFail

\* the elements of an array, the first starting at index i, up to the ']'
ParseElements(s, i, acc) ==
    LET r == ParseValue(s, i)
        j == SkipWs(s, r.pos)
    IN  IF ~r.ok \/ j > Len(s) THEN PFail
        ELSE IF s[j] = 44 THEN ParseElements(s, j + 1, Append(acc, r.val))
        ELSE IF s[j] = 93 THEN POk(JSArr(Append(acc, r.val)), j + 1)
        ELSE PFail

\* the members of an object, the first starting at index i, up to the '}'
ParseMembers(s, i, acc) ==
    LET j0 == SkipWs(s, i)
        k == IF j0 <= Len(s) /\ s[j0] = 34 THEN ParseChars(s, j0 + 1, << >>) ELSE PFail
        j1 == SkipWs(s, k.pos)
        r == IF k.ok /\ j1 <= Len(s) /\ s[j1] = 58 THEN ParseValue(s, j1 + 1) ELSE PFail
        j2 == SkipWs(s, r.pos)
    IN  IF ~r.ok \/ j2 > Len(s) THEN PFail
        ELSE IF s[j2] = 44 THEN ParseMembers(s, j2 + 1, PutMember(acc, k.val.v, r.val))
        ELSE IF s[j2] = 125 THEN POk(JSObj(PutMember(acc, k.val.v, r.val)), j2 + 1)
        ELSE PFail

\* JSON.parse(text): ok = FALSE when it throws a SyntaxError
JSONParse(text) ==
    LET r == ParseValue(text, 1)
    IN  IF r.ok /\ SkipWs(text, r.pos) = Len(text) + 1
        THEN [ok |-> TRUE, v |-> r.val]
        ELSE [ok |-> FALSE, v |-> JSNull]

(***************************************************************************)
(* The instance and the browser state it works on                          *)
(***************************************************************************)
VARIABLES
    features,          \* this.features: [webCrypto, localStorage, indexedDB]
    encryptionMethod,  \* this.encryptionMethod: "webcrypto" or "simple"
    storageBackend,    \* this.storageBackend: "localStorage", "indexedDB", "memory"
    localStorage,      \* window.localStorage: item name -> string
    indexedDB,         \* the database 'EncryptedStorage': [exists, store, data]
    window,            \* window._encryptionKey and window._encryptedStorage
    rng,               \* how many random values the platform has handed out
    last,              \* the last call of the facade and how its promise ended
    saved,             \* per record key, the arguments of the last save that resolved true
    recent,            \* the record key of the call just made when that call was a
                       \* saveEncrypted that resolved true, else the empty string
    nSaves,            \* how many saveEncrypted calls were made
    calls,             \* the calls in flight at the same time, in the order they
                       \* were made: each with its arguments, the await it stands
                       \* at (pc) and its local variables
    download,          \* the backup file the demo page exported last (its data
                       \* section), and what the store held when it was made
    timers,            \* the page's clock and the timers that setTimeout and
                       \* setInterval made and that were neither cleared nor,
                       \* for a timeout, run: [now, nextId, active]
    autoSaveTimers,    \* ProductivityStorage.autoSaveTimers: app name -> timer id
    bursts,            \* per app name, the autoSave calls since the last
                       \* auto-save of that app and the saves its timers made
    cloud              \* the fields of the CloudStorageManager

\* the state of the productivity tools page outside the encrypted store
toolVars == << timers, autoSaveTimers, bursts, cloud >>

vars == << features, encryptionMethod, storageBackend, localStorage, indexedDB,
           window, rng, last, saved, recent, nSaves, calls, download, toolVars >>

\* options.keyName || 'pwa-encryption-key'
keyName == << 112, 119, 97, 45, 101, 110, 99, 114, 121, 112, 116, 105, 111, 110,
              45, 107, 101, 121 >>

\* options.keySize || 256, in bits
keySize == 256

\* the GCM IV size in bytes
ivSize == 12

JSUndefined == [t |-> "undef", v |-> 0]

\* a thrown Error with its message
Err(msg) == [t |-> "error", v |-> msg]

\* the browser state an operation reads and writes, the fault the
\* environment raises during the call ("none", "keyWrite", "recordWrite",
\* "remove": the backend call of that kind throws), and whether it was raised
World(f) ==
    [ls |-> localStorage, idb |-> indexedDB, win |-> window, rng |-> rng, fault |-> f,
     fired |-> FALSE]

\* how an asynchronous call ends: st is "ok" (resolved with v), "throw"
\* (rejected) or "hang" (the promise never settles), in the browser state w
Ret(w, st, v) == [w |-> w, st |-> st, v |-> v]

\* the backend call throws (or its request errors)
Raise(w, msg) == Ret([w EXCEPT !.fired = TRUE], "throw", Err(msg))

\* the function m with m[k] set to x
MapPut(m, k, x) == [j \in DOMAIN m \cup {k} |-> IF j = k THEN x ELSE m[j]]

\* Storage.getItem / a property read: null (or undefined) when absent
MapGet(m, k, absent) == IF k \in DOMAIN m THEN m[k] ELSE absent

\* whether s starts with prefix (String.prototype.startsWith)
StartsWith(s, prefix) ==
    Len(s) >= Len(prefix) /\ SubSeq(s, 1, Len(prefix)) = prefix

\* 'encrypted-'
EncryptedPrefix == <<101, 110, 99, 114, 121, 112, 116, 101, 100, 45>>

(***************************************************************************)
(* Platform primitives                                                     *)
(***************************************************************************)
\* the i-th byte of the seed-th draw from the random source
RandomByte(seed, i) == (seed * 89 + i * 37 + 5) % 256

\* n bytes from the random source, for the seed-th draw: a draw never repeats
\* an earlier one
RandomBytes(seed, n) == [i \in 1..n |-> RandomByte(seed, i)]

RECURSIVE HashOf(_)
HashOf(s) == IF s = << >> THEN 7 ELSE (HashOf(Tail(s)) * 31 + Head(s)) % 251

\* PBKDF2 (100000 iterations, SHA-256, the fixed salt of the origin): a
\* deterministic function of the password
Pbkdf2(password, n) ==
    [i \in 1..n |-> (HashOf(Utf8Encode(password)) * (i + 2) + i * i + 1) % 256]

\* the integer a JSON number value stands for (0 when it is no whole number >= 0)
IntOf(x) ==
    IF x.t = "num" /\ x.v[1] >= 0 /\ x.v[2] >= 0 THEN x.v[1] * Pow(10, x.v[2]) ELSE 0

\* a JavaScript array of whole numbers >= 0 (a key), kept as the sequence of
\* its elements
ArrayOf(bytes) == [t |-> "bytes", v |-> bytes]

\* the string JSON.stringify(key) of such an array, kept as the array it
\* spells: JSON.parse gives back an array of the same numbers
KeyText(key) == [t |-> "keytext", v |-> key.v]

\* new Uint8Array(keyData)
Uint8ArrayOf(keyData) ==
    IF keyData.t = "bytes" THEN [i \in 1..Len(keyData.v) |-> keyData.v[i] % 256]
    ELSE IF keyData.t = "arr" THEN [i \in 1..Len(keyData.v) |-> IntOf(keyData.v[i]) % 256]
    ELSE IF keyData.t = "num" THEN [i \in 1..IntOf(keyData) |-> 0]
    ELSE << >>

\* importKey: crypto.subtle.importKey('raw', ...) accepts 128, 192 and 256 bits
importKey(keyData) ==
    LET raw == Uint8ArrayOf(keyData)
    IN  [ok |-> Len(raw) \in {16, 24, 32}, v |-> raw]

\* encryptWithWebCrypto: base64(iv || AES-GCM(key, iv, UTF-8(data))), kept
\* symbolic: the envelope names the IV, the key and the plaintext bytes
encryptWithWebCrypto(data, cryptoKey, seed) ==
    [t |-> "gcm", v |-> [iv |-> RandomBytes(seed, ivSize), key |-> cryptoKey,
                         pt |-> Utf8Encode(data)]]

\* decryption that verifies no tag: under another key it yields other text
decryptUnverified(encryptedData, cryptoKey) ==
    IF encryptedData.t # "gcm" THEN [ok |-> FALSE, v |-> JSStr(<< >>)]
    ELSE IF encryptedData.v.key = cryptoKey
    THEN [ok |-> TRUE, v |-> JSStr(Utf8Decode(encryptedData.v.pt))]
    ELSE [ok |-> TRUE, v |-> JSStr([i \in 1..Len(encryptedData.v.pt) |-> 63])]

\* the i-th byte (from 1) of the AES-GCM key stream under a key and an IV
GcmStream(cryptoKey, iv, i) ==
    (cryptoKey[((i - 1) % Len(cryptoKey)) + 1] * 3 + iv[((i - 1) % Len(iv)) + 1] * 7
        + i * 13) % 256

RECURSIVE GcmHash(_, _)
\* a hash of the bytes s modulo the prime p
GcmHash(s, p) == IF s = << >> THEN 1 ELSE (GcmHash(Tail(s), p) * 31 + Head(s)) % p

\* the 128-bit authentication tag of AES-GCM over the key, the IV and the
\* ciphertext: a change of any byte of them changes the tag
GcmTag(cryptoKey, iv, ct) ==
    [j \in 1..16 |->
        GcmHash(cryptoKey \o iv \o ct,
                << 251, 241, 239, 233, 229, 227, 223, 211,
                   199, 197, 193, 191, 181, 179, 173, 167 >>[j])]

\* the bytes iv || ciphertext || tag that encryptWithWebCrypto encodes in
\* base64: what the envelope e stands for
GcmBytes(e) ==
    e.iv
    \o [i \in 1..Len(e.pt) |-> Xor(e.pt[i], GcmStream(e.key, e.iv, i))]
    \o GcmTag(e.key, e.iv,
              [i \in 1..Len(e.pt) |-> Xor(e.pt[i], GcmStream(e.key, e.iv, i))])

\* crypto.subtle.decrypt of the decoded bytes combined = iv || encrypted: the
\* plaintext when the tag verifies under the key
gcmOpen(combined, cryptoKey) ==
    IF Len(combined) < ivSize + 16 THEN [ok |-> FALSE, v |-> JSStr(<< >>)]
    ELSE IF SubSeq(combined, Len(combined) - 15, Len(combined))
            # GcmTag(cryptoKey, SubSeq(combined, 1, ivSize),
                     SubSeq(combined, ivSize + 1, Len(combined) - 16))
    THEN [ok |-> FALSE, v |-> JSStr(<< >>)]
    ELSE [ok |-> TRUE,
          v |-> JSStr(Utf8Decode(
                   [i \in 1..(Len(combined) - ivSize - 16) |->
                       Xor(combined[ivSize + i],
                           GcmStream(cryptoKey, SubSeq(combined, 1, ivSize), i))]))]

\* decryptWithWebCrypto: the tag verifies only under the key that encrypted.
\* An envelope as encrypt made it is kept symbolic; any other text is decoded
\* from base64 (atob throws on a malformed text) and opened byte by byte
decryptWithWebCrypto(encryptedData, cryptoKey) ==
    IF encryptedData.t = "gcm" THEN
        (IF encryptedData.v.key = cryptoKey
         THEN [ok |-> TRUE, v |-> JSStr(Utf8Decode(encryptedData.v.pt))]
         ELSE [ok |-> FALSE, v |-> JSStr(<< >>)])
    ELSE IF encryptedData.t = "str" /\ base64ToBytes(encryptedData.v).ok
    THEN gcmOpen(base64ToBytes(encryptedData.v).v, cryptoKey)
    ELSE [ok |-> FALSE, v |-> JSStr(<< >>)]

\* key[i % key.length] as the operand of ^ (undefined counts as 0), i from 0
KeyAt(key, i) ==
    IF key.t = "bytes" /\ Len(key.v) > 0 THEN key.v[(i % Len(key.v)) + 1]
    ELSE IF key.t = "arr" /\ Len(key.v) > 0 THEN IntOf(key.v[(i % Len(key.v)) + 1])
    ELSE 0

\* a cipher that adds the key byte instead of XORing it
encryptSimpleAdding(data, key) ==
    [ok |-> TRUE,
     v |-> JSStr(bytesToBase64([i \in 1..Len(data) |->
                    ((data[i] % 256) + KeyAt(key, i - 1)) % 256]).v)]

\* encryptSimple: XOR with the repeated key, then base64
encryptSimple(data, key) ==
    LET dataBytes == stringToBytes(data)
        encrypted == [i \in 1..Len(dataBytes) |-> Xor(dataBytes[i], KeyAt(key, i - 1))]
        b64 == bytesToBase64(encrypted)
    IN  [ok |-> b64.ok, v |-> JSStr(b64.v)]

\* decryptSimple: base64 decode, XOR with the repeated key (an AES-GCM
\* envelope is the base64 text of its bytes)
decryptSimple(encryptedData, key) ==
    LET dec == IF encryptedData.t = "str" THEN base64ToBytes(encryptedData.v)
               ELSE IF encryptedData.t = "gcm"
               THEN base64ToBytes(bytesToBase64(GcmBytes(encryptedData.v)).v)
               ELSE [ok |-> FALSE, v |-> << >>]
        decrypted == [i \in 1..Len(dec.v) |-> Xor(dec.v[i], KeyAt(key, i - 1))]
    IN  [ok |-> dec.ok, v |-> JSStr(bytesToString(decrypted))]

(***************************************************************************)
(* IndexedDB helpers                                                       *)
(***************************************************************************)
\* no database 'EncryptedStorage'; open: a connection to the database made by
\* this page is still open (neither helper ever calls db.close())
NoDatabase == [exists |-> FALSE, store |-> FALSE, data |-> << >>, open |-> FALSE]

\* storeInIndexedDB: open (the upgrade of a new database creates the object
\* store 'encrypted'), then put. In a database that has no such object store
\* db.transaction throws inside the success handler and the promise never
\* settles. fails: the put request errors
storeInIndexedDB(w, key, data, fails) ==
    LET db == IF w.idb.exists THEN [w.idb EXCEPT !.open = TRUE]
              ELSE [exists |-> TRUE, store |-> TRUE, data |-> << >>, open |-> TRUE]
        w1 == [w EXCEPT !.idb = db]
    IN  IF ~db.store THEN Ret(w1, "hang", JSUndefined)
        ELSE IF fails THEN Raise(w1, "put request failed")
        ELSE Ret([w1 EXCEPT !.idb.data = MapPut(db.data, key, data)], "ok", JSBool(TRUE))

\* loadFromIndexedDB: open (no upgrade handler: a new database is created
\* without any object store), then get; resolves getRequest.result || null
loadFromIndexedDB(w, key) ==
    LET db == IF w.idb.exists THEN [w.idb EXCEPT !.open = TRUE]
              ELSE [exists |-> TRUE, store |-> FALSE, data |-> << >>, open |-> TRUE]
        w1 == [w EXCEPT !.idb = db]
        result == MapGet(db.data, key, JSUndefined)
    IN  IF ~db.store THEN Ret(w1, "hang", JSUndefined)
        ELSE Ret(w1, "ok", IF Truthy(result) THEN result ELSE JSNull)

(***************************************************************************)
(* Key manager                                                             *)
(***************************************************************************)
\* generateKey + exportKey: keySize random bits as an array of bytes
generateKey(seed) == ArrayOf(RandomBytes(seed, keySize \div 8))

\* generateSimpleKey: 32 values Math.floor(Math.random() * 256)
generateSimpleKey(seed) == ArrayOf(RandomBytes(seed, 32))

\* deriveKeyFromPassword
deriveKeyFromPassword(password) ==
    IF ~features.webCrypto THEN
        LET passwordBytes == stringToBytes(password)
        IN  ArrayOf([j \in 1..32 |->
                Xor(IF passwordBytes = << >> THEN 0
                    ELSE passwordBytes[((j - 1) % Len(passwordBytes)) + 1],
                    (j - 1) * 17)])
    ELSE ArrayOf(Pbkdf2(password, keySize \div 8))

\* storeKey: the JSON text of the key goes to localStorage, else to
\* indexedDB, else to window._encryptionKey; a failure is rethrown
storeKey(w, key) ==
    LET keyData == KeyText(key)
    IN  IF features.localStorage THEN
            IF w.fault = "keyWrite" THEN Raise(w, "QuotaExceededError")
            ELSE Ret([w EXCEPT !.ls = MapPut(w.ls, keyName, keyData)], "ok", JSUndefined)
        ELSE IF features.indexedDB THEN
            storeInIndexedDB(w, keyName, keyData, w.fault = "keyWrite")
        ELSE Ret([w EXCEPT !.win._encryptionKey = keyData], "ok", JSUndefined)

\* the item read from the key slot: localStorage.getItem, loadFromIndexedDB
\* or window._encryptionKey
readKey(w) ==
    IF features.localStorage THEN Ret(w, "ok", MapGet(w.ls, keyName, JSNull))
    ELSE IF features.indexedDB THEN loadFromIndexedDB(w, keyName)
    ELSE Ret(w, "ok", w.win._encryptionKey)

\* JSON.parse(keyData) as loadKey calls it; what is no string is first
\* converted to one, which is no JSON text for the items kept here
parseKey(keyData) ==
    IF keyData.t = "keytext" THEN [ok |-> TRUE, v |-> ArrayOf(keyData.v)]
    ELSE IF keyData.t = "str" THEN JSONParse(keyData.v)
    ELSE [ok |-> FALSE, v |-> JSNull]

\* c.v, or v when c failed
OrElse(c, v) == IF c.ok THEN c.v ELSE v

\* loadKey, once the item r was read: keyData ? JSON.parse(keyData) : null,
\* and null when anything throws
keyOf(r) ==
    IF r.st = "hang" THEN r
    ELSE IF r.st = "ok" /\ Truthy(r.v) THEN Ret(r.w, "ok", OrElse(parseKey(r.v), JSNull))
    ELSE Ret(r.w, "ok", JSNull)

\* loadKey
loadKey(w) == keyOf(readKey(w))

\* the key generateAndStoreKey makes from the seed-th random draw: the draw
\* itself, or with a password the PBKDF2 key (webcrypto) or the draw XORed
\* with the repeated password bytes (simple)
newKey(seed, password) ==
    IF ~Truthy(password) THEN
        (IF encryptionMethod = "webcrypto" THEN generateKey(seed)
         ELSE generateSimpleKey(seed))
    ELSE IF encryptionMethod = "webcrypto" THEN deriveKeyFromPassword(password.v)
    ELSE ArrayOf([i \in 1..32 |->
            Xor(RandomByte(seed, i),
                stringToBytes(password.v)[((i - 1) % Len(password.v)) + 1])])

\* generateAndStoreKey, once storeKey ended as r: the key, or the failure
storedKey(r, key) == IF r.st = "ok" THEN Ret(r.w, "ok", key) ELSE r

\* generateAndStoreKey, once the key is made
storeNewKey(w, key) == storedKey(storeKey(w, key), key)

\* generateAndStoreKey
generateAndStoreKey(w, password) ==
    storeNewKey([w EXCEPT !.rng = w.rng + 1], newKey(w.rng, password))

(***************************************************************************)
(* Unified API: encrypt and decrypt                                        *)
(***************************************************************************)
\* an operation that resolves with c.v, or throws when c failed
OrThrow(w, c, msg) == IF c.ok THEN Ret(w, "ok", c.v) ELSE Ret(w, "throw", Err(msg))

\* the cipher step taking the fallback path whatever encryptionMethod says
encryptWithFallback(r2, dataString) ==
    IF r2.st # "ok" THEN r2
    ELSE OrThrow(r2.w, encryptSimple(dataString, r2.v), "InvalidCharacterError")

\* encrypt, once the key to use is there (r2): import and AES-GCM, or XOR
encryptWith(r2, dataString) ==
    IF r2.st # "ok" THEN r2
    ELSE IF encryptionMethod = "webcrypto" THEN
        IF ~importKey(r2.v).ok THEN Ret(r2.w, "throw", Err("DataError"))
        ELSE Ret([r2.w EXCEPT !.rng = r2.w.rng + 1], "ok",
                 encryptWithWebCrypto(dataString, importKey(r2.v).v, r2.w.rng))
    ELSE OrThrow(r2.w, encryptSimple(dataString, r2.v), "InvalidCharacterError")

\* encrypt generating and storing a new key on every call, as if the test
\* `!key || password` were always true
encryptKeyedAnew(r1, data, password) ==
    IF r1.st # "ok" THEN r1
    ELSE encryptWith(generateAndStoreKey(r1.w, password),
                     IF data.t = "str" THEN data.v ELSE JSONStringify(data))

\* encrypt, once loadKey ended as r1: a new key is generated and stored when
\* there is none or a password is given
encryptKeyed(r1, data, password) ==
    IF r1.st # "ok" THEN r1
    ELSE encryptWith(IF ~Truthy(r1.v) \/ Truthy(password)
                     THEN generateAndStoreKey(r1.w, password)
                     ELSE r1,
                     IF data.t = "str" THEN data.v ELSE JSONStringify(data))

\* encrypt(data, password): resolves with the envelope, or rethrows
encrypt(w, data, password) == encryptKeyed(loadKey(w), data, password)

\* the decrypted string taking the fallback path whatever encryptionMethod says
decryptedStringFallback(key, encryptedData) == decryptSimple(encryptedData, key)

\* the decrypted string under a key: import and AES-GCM, or XOR
decryptedString(key, encryptedData) ==
    IF encryptionMethod = "webcrypto"
    THEN (IF importKey(key).ok
          THEN decryptWithWebCrypto(encryptedData, importKey(key).v)
          ELSE [ok |-> FALSE, v |-> JSStr(<< >>)])
    ELSE decryptSimple(encryptedData, key)

\* the end of decrypt: the parsed JSON value of the decrypted string, or the
\* string itself when it is no JSON text
parsedOrString(w, str) ==
    IF ~str.ok THEN Ret(w, "throw", Err("decryption failed"))
    ELSE Ret(w, "ok", OrElse(JSONParse(str.v.v), str.v))

\* decrypt, once the key to use is there (r2)
decryptWith(r2, encryptedData) ==
    IF r2.st # "ok" THEN r2
    ELSE IF ~Truthy(r2.v) THEN Ret(r2.w, "throw", Err("No encryption key available"))
    ELSE parsedOrString(r2.w, decryptedString(r2.v, encryptedData))

\* decrypt generating a key whenever a password is given, as encrypt does
decryptKeyedAnew(r1, encryptedData, password) ==
    IF r1.st # "ok" THEN r1
    ELSE decryptWith(IF ~Truthy(r1.v) \/ Truthy(password)
                     THEN generateAndStoreKey(r1.w, password)
                     ELSE r1,
                     encryptedData)

\* decrypt, once loadKey ended as r1: a key is generated from the password
\* only when no key is stored
decryptKeyed(r1, encryptedData, password) ==
    IF r1.st # "ok" THEN r1
    ELSE decryptWith(IF ~Truthy(r1.v) /\ Truthy(password)
                     THEN generateAndStoreKey(r1.w, password)
                     ELSE r1,
                     encryptedData)

\* decrypt(encryptedData, password): resolves with the value, or rethrows
decrypt(w, encryptedData, password) == decryptKeyed(loadKey(w), encryptedData, password)

(***************************************************************************)
(* Storage methods                                                         *)
(***************************************************************************)
\* window._encryptedStorage as a map (empty while it is undefined)
MemoryStore(w) ==
    IF w.win._encryptedStorage.t = "map" THEN w.win._encryptedStorage.v ELSE << >>

\* what a try block that ended as r resolves with: v when it completed, onThrow
\* when anything in it threw; nothing when a promise in it never settles
Caught(r, v, onThrow) ==
    IF r.st = "hang" THEN r
    ELSE IF r.st = "throw" THEN Ret(r.w, "ok", onThrow)
    ELSE Ret(r.w, "ok", v)

\* the write of the envelope: localStorage.setItem, storeInIndexedDB, or the
\* in-memory map
putRecord(w, key, encrypted) ==
    IF features.localStorage /\ storageBackend = "localStorage" THEN
        IF w.fault = "recordWrite" THEN Raise(w, "QuotaExceededError")
        ELSE Ret([w EXCEPT !.ls = MapPut(w.ls, key, encrypted)], "ok", JSUndefined)
    ELSE IF features.indexedDB /\ storageBackend = "indexedDB" THEN
        storeInIndexedDB(w, key, encrypted, w.fault = "recordWrite")
    ELSE
        Ret([w EXCEPT !.win._encryptedStorage =
                [t |-> "map", v |-> MapPut(MemoryStore(w), key, encrypted)]],
            "ok", JSUndefined)

\* saveEncrypted, once encrypt ended as e
saveSealed(e, key) ==
    IF e.st # "ok" THEN Caught(e, JSBool(TRUE), JSBool(FALSE))
    ELSE Caught(putRecord(e.w, key, e.v), JSBool(TRUE), JSBool(FALSE))

\* saveEncrypted(key, data, password): true, or false when anything throws
saveEncrypted(w, key, data, password) == saveSealed(encrypt(w, data, password), key)

\* the read of the envelope: localStorage.getItem, loadFromIndexedDB, or the
\* in-memory map
getRecord(w, key) ==
    IF features.localStorage /\ storageBackend = "localStorage" THEN
        Ret(w, "ok", MapGet(w.ls, key, JSNull))
    ELSE IF features.indexedDB /\ storageBackend = "indexedDB" THEN
        loadFromIndexedDB(w, key)
    ELSE
        Ret(w, "ok", MapGet(MemoryStore(w), key, JSUndefined))

\* the end of loadEncrypted: what decrypt resolved with, or null when it threw
decryptedOrNull(d) == IF d.st = "ok" THEN d ELSE Caught(d, JSNull, JSNull)

\* loadEncrypted, once the envelope was read (g): null when there is none
loadOpened(g, password) ==
    IF g.st # "ok" THEN Caught(g, JSNull, JSNull)
    ELSE IF ~Truthy(g.v) THEN Ret(g.w, "ok", JSNull)
    ELSE decryptedOrNull(decrypt(g.w, g.v, password))

\* loadEncrypted(key, password): the decrypted value, or null when there is
\* no envelope or anything throws
loadEncrypted(w, key, password) == loadOpened(getRecord(w, key), password)

\* clearAll: removes the key item and the items named 'encrypted-...' from
\* localStorage, deletes the database, deletes the two window properties;
\* true, or false when anything throws. Fault "blocked": the connections this
\* page left open are not closed, the delete request gets only its 'blocked'
\* event, for which there is no handler, and the awaited promise never settles
clearAll(w) ==
    LET kept == {k \in DOMAIN w.ls : k # keyName /\ ~StartsWith(k, EncryptedPrefix)}
        w1 == IF features.localStorage
              THEN [w EXCEPT !.ls = [k \in kept |-> w.ls[k]]]
              ELSE w
        w2 == IF features.indexedDB THEN [w1 EXCEPT !.idb = NoDatabase] ELSE w1
        w3 == [w2 EXCEPT !.win = [_encryptionKey |-> JSUndefined,
                                  _encryptedStorage |-> JSUndefined]]
    IN  IF features.localStorage /\ w.fault = "remove"
        THEN Ret([w EXCEPT !.fired = TRUE], "ok", JSBool(FALSE))
        ELSE IF features.indexedDB /\ w.idb.open /\ w.fault = "blocked"
        THEN Ret([w1 EXCEPT !.fired = TRUE], "hang", JSUndefined)
        ELSE Ret(w3, "ok", JSBool(TRUE))

(***************************************************************************)
(* The calls a run makes                                                   *)
(***************************************************************************)
\* record keys: 'note', the key-slot name itself, 'encrypted-n'
RecordKeys == { <<110, 111, 116, 101>>, keyName, EncryptedPrefix \o <<110>> }

\* data: '', 'hi', {"a":1}
DataValues ==
    << JSStr(<< >>), JSStr(<<104, 105>>), JSObj(<< << <<97>>, JSNum(1) >> >>) >>

\* passwords: none, 'p', 'q'
Passwords == << JSNull, JSStr(<<112>>), JSStr(<<113>>) >>

\* no call of the facade is being looked at
NoCall == [op |-> "none", key |-> << >>, data |-> JSNull, password |-> JSNull,
           fired |-> FALSE, after |-> << >>, st |-> "ok",
           v |-> JSUndefined]

Idle == last.op = "none"

\* what is known of a record key: has (a save of it resolved true), the data and
\* password of the last such save, again (that save followed an earlier one),
\* cleared (clearAll resolved true since, and the key was not saved again)
NotSaved == [has |-> FALSE, data |-> JSNull, password |-> JSNull, again |-> FALSE,
             cleared |-> FALSE]

\* app names: 'notes', 'todo'
AppNames == { <<110, 111, 116, 101, 115>>, <<116, 111, 100, 111>> }

\* no autoSave call and no saveAppData call made yet for an app name. A burst
\* is the autoSave calls from the first one after an auto-save of the app to
\* the next auto-save. calls: the calls of the burst; at, data: the time and
\* the data of the last of them; tight: each came less than autoSaveDelay
\* after the one before; saves: the auto-saves since the first of them;
\* done: the burst ended with an auto-save; has, written: the data of the
\* last saveAppData call
NoBurst ==
    [calls |-> 0, at |-> 0, data |-> JSNull, tight |-> TRUE, saves |-> 0,
     done |-> TRUE, has |-> FALSE, written |-> JSNull]

\* the CloudStorageManager after its constructor; autoSyncInterval is the id
\* of the timer, 0 for null
NewCloudStorageManager ==
    [isConnected |-> FALSE, autoSyncEnabled |-> FALSE, autoSyncInterval |-> 0,
     syncFrequency |-> 15]

Init ==
    /\ features \in [webCrypto : BOOLEAN, localStorage : BOOLEAN, indexedDB : BOOLEAN]
    /\ encryptionMethod = IF features.webCrypto THEN "webcrypto" ELSE "simple"
    /\ storageBackend \in {"localStorage", "indexedDB", "memory"}
    /\ localStorage = << >>
    /\ indexedDB = NoDatabase
    /\ window = [_encryptionKey |-> JSUndefined, _encryptedStorage |-> JSUndefined]
    /\ rng = 0
    /\ last = NoCall
    /\ saved = [k \in RecordKeys |-> NotSaved]
    /\ recent = << >>
    /\ nSaves = 0
    /\ calls = << >>
    /\ download = [stage |-> "none", data |-> << >>,
                   records |-> [k \in RecordKeys |-> JSUndefined],
                   before |-> [k \in RecordKeys |-> [st |-> "ok", v |-> JSNull]]]
    /\ timers = [now |-> 0, nextId |-> 1, active |-> {}]
    /\ autoSaveTimers = << >>
    /\ bursts = [a \in AppNames |-> NoBurst]
    /\ cloud = NewCloudStorageManager

\* the browser state after a call
Commit(r) ==
    /\ r.w.rng <= MaxRandom
    /\ localStorage' = r.w.ls
    /\ indexedDB' = r.w.idb
    /\ window' = r.w.win
    /\ rng' = r.w.rng
    /\ UNCHANGED << features, encryptionMethod, storageBackend, calls, download, toolVars >>

SaveEncrypted(key, data, password, fault) ==
    /\ Idle
    /\ nSaves < MaxSaves
    /\ \E r \in {saveEncrypted(World(fault), key, data, password)} :
        /\ Commit(r)
        /\ nSaves' = nSaves + 1
        /\ last' = [op |-> "saveEncrypted", key |-> key, data |-> data,
                    password |-> password, fired |-> r.w.fired,
                    after |-> recent, st |-> r.st, v |-> r.v]
        /\ saved' = IF r.st = "ok" /\ IsTrue(r.v)
                    THEN [saved EXCEPT ![key] =
                            [has |-> TRUE, data |-> data, password |-> password,
                             again |-> saved[key].has /\ ~saved[key].cleared,
                             cleared |-> FALSE]]
                    ELSE [saved EXCEPT ![key].cleared = FALSE]
        /\ recent' = IF r.st = "ok" /\ IsTrue(r.v) THEN key ELSE << >>

LoadEncrypted(key, password) ==
    /\ Idle
    /\ \E r \in {loadEncrypted(World("none"), key, password)} :
        /\ Commit(r)
        /\ last' = [op |-> "loadEncrypted", key |-> key, data |-> JSNull,
                    password |-> password, fired |-> r.w.fired,
                    after |-> recent, st |-> r.st, v |-> r.v]
        /\ recent' = << >>
        /\ UNCHANGED << saved, nSaves >>

ClearAll(fault) ==
    /\ Idle
    /\ \E r \in {clearAll(World(fault))} :
        /\ Commit(r)
        /\ last' = [op |-> "clearAll", key |-> << >>, data |-> JSNull,
                    password |-> JSNull, fired |-> r.w.fired,
                    after |-> recent, st |-> r.st, v |-> r.v]
        /\ recent' = << >>
        /\ saved' = IF IsTrue(r.v) \/ r.st = "hang"
                    THEN [k \in RecordKeys |-> [saved[k] EXCEPT !.cleared = saved[k].has]]
                    ELSE saved
        /\ UNCHANGED nSaves

\* the caller is done with the outcome of the last call (a promise that never
\* settles blocks only its own caller) and the next call can be made
Forget ==
    /\ ~Idle
    /\ last' = NoCall
    /\ UNCHANGED << features, encryptionMethod, storageBackend, localStorage,
                    indexedDB, window, rng, saved, recent, nSaves, calls,
                    download, toolVars >>

Next ==
    \/ \E key \in RecordKeys, d \in DOMAIN DataValues, p \in {1, 2},
          fault \in {"none", "keyWrite", "recordWrite"} :
            SaveEncrypted(key, DataValues[d], Passwords[p], fault)
    \/ \E key \in RecordKeys, p \in DOMAIN Passwords : LoadEncrypted(key, Passwords[p])
    \/ \E fault \in {"none", "remove", "blocked"} : ClearAll(fault)
    \/ Forget

Spec == Init /\ [][Next]_vars

(***************************************************************************)
(* What the stores hold                                                    *)
(***************************************************************************)
\* the item the key manager reads as the persisted key: where storeKey and
\* loadKey keep it (null or undefined when there is none)
KeySlot ==
    IF features.localStorage THEN MapGet(localStorage, keyName, JSNull)
    ELSE IF features.indexedDB THEN MapGet(indexedDB.data, keyName, JSUndefined)
    ELSE window._encryptionKey

\* nothing is stored in the key slot
KeySlotAbsent ==
    IF features.localStorage THEN keyName \notin DOMAIN localStorage
    ELSE IF features.indexedDB THEN keyName \notin DOMAIN indexedDB.data
    ELSE window._encryptionKey.t = "undef"

\* the key slot holds a text that JSON.parse rejects
KeyMalformed ==
    /\ Truthy(KeySlot)
    /\ KeySlot.t # "keytext"
    /\ ~(KeySlot.t = "str" /\ JSONParse(KeySlot.v).ok)

\* the envelope loadEncrypted reads for a record key (null or undefined when
\* there is none)
RecordAt(key) ==
    IF features.localStorage /\ storageBackend = "localStorage"
    THEN MapGet(localStorage, key, JSNull)
    ELSE IF features.indexedDB /\ storageBackend = "indexedDB"
    THEN MapGet(indexedDB.data, key, JSUndefined)
    ELSE MapGet(MemoryStore(World("none")), key, JSUndefined)

\* the record keys that name an envelope in the store loadEncrypted reads
RecordNames ==
    IF features.localStorage /\ storageBackend = "localStorage"
    THEN DOMAIN localStorage
    ELSE IF features.indexedDB /\ storageBackend = "indexedDB"
    THEN DOMAIN indexedDB.data
    ELSE DOMAIN MemoryStore(World("none"))

\* the names of all items held in localStorage, the database and the
\* in-memory map, the key slot included
StoredNames ==
    DOMAIN localStorage \cup DOMAIN indexedDB.data \cup DOMAIN MemoryStore(World("none"))
        \cup (IF window._encryptionKey.t = "undef" THEN {} ELSE {keyName})

\* the last call resolved with the value v
Resolved(v) == last.st = "ok" /\ SameValue(last.v, v)

\* the last call is a loadEncrypted made right after a saveEncrypted of the
\* same record key resolved true
LoadAfterSave ==
    last.op = "loadEncrypted" /\ last.after = last.key /\ saved[last.key].has

(***************************************************************************)
(* C1: a save without password resolves true and the load that follows it  *)
(* resolves to the saved value                                              *)
(***************************************************************************)
\* C1: saveEncrypted(k, v) with no password resolves true (no backend fault
\* being raised), and loadEncrypted(k) made right after it resolves to a value
\* equal to v, for every record key, data value, cipher mode and backend
RoundTrip_C1 ==
    /\ (last.op = "saveEncrypted" /\ IsNull(last.password) /\ ~last.fired)
            => Resolved(JSBool(TRUE))
    /\ (LoadAfterSave /\ IsNull(saved[last.key].password) /\ IsNull(last.password))
            => Resolved(saved[last.key].data)

(***************************************************************************)
(* C2: a wrong password yields null                                         *)
(***************************************************************************)
\* the last call is a loadEncrypted with a password, made right after a
\* saveEncrypted of the same record key with a password resolved true
LoadAfterPasswordSave ==
    LoadAfterSave /\ Truthy(saved[last.key].password) /\ Truthy(last.password)

\* the first half of C2: loadEncrypted(k, p) with the password of the save
\* resolves to v (the round trip of C1, with a password)
RightPassword ==
    (LoadAfterPasswordSave /\ last.password.v = saved[last.key].password.v)
        => Resolved(saved[last.key].data)

\* C2: after saveEncrypted(k, v, p) with a non-empty password p resolved true,
\* loadEncrypted(k, p) resolves to v (RightPassword), and loadEncrypted(k, q)
\* with a password q different from p resolves to null and never to v: this
\* is the second half, which the first does not depend on
WrongPassword_C2 ==
    (LoadAfterPasswordSave /\ last.password.v # saved[last.key].password.v)
        => Resolved(JSNull)

(***************************************************************************)
(* C3: a password-protected record is not read without the password        *)
(***************************************************************************)
\* C3: after saveEncrypted(k, v, p) with a non-empty password p resolved true,
\* loadEncrypted(k) without password does not resolve to v
PasswordRequired_C3 ==
    (LoadAfterSave /\ Truthy(saved[last.key].password) /\ IsNull(last.password))
        => ~Resolved(saved[last.key].data)

(***************************************************************************)
(* C4: clearAll makes the records saved before it unreadable                *)
(***************************************************************************)
\* C4: once clearAll has resolved true, loadEncrypted(k, q) resolves to null
\* for every record key k saved before it and every password q (or none),
\* as long as k is not saved again, whatever else was saved meanwhile
ClearedUnreadable_C4 ==
    (last.op = "loadEncrypted" /\ saved[last.key].has /\ saved[last.key].cleared)
        => Resolved(JSNull)

(***************************************************************************)
(* C5: clearAll removes the key slot and every envelope                     *)
(***************************************************************************)
\* C5: when clearAll has resolved true, no backend holds any item: neither
\* the key slot nor an envelope under any record key
ClearAllRemoves_C5 ==
    (last.op = "clearAll" /\ Resolved(JSBool(TRUE))) => StoredNames = {}

(***************************************************************************)
(* C6: a second save of a record key replaces the first                     *)
(***************************************************************************)
\* C6: after two saves of the same record key that both resolved true, the
\* key names one envelope, and loadEncrypted(k) with the password of the
\* second save (if any) resolves to the data of the second save
Overwrite_C6 ==
    /\ (last.op = "saveEncrypted" /\ Resolved(JSBool(TRUE)) /\ saved[last.key].again)
            => last.key \in RecordNames
    /\ (LoadAfterSave /\ saved[last.key].again
            /\ SameValue(last.password, saved[last.key].password))
            => Resolved(saved[last.key].data)

(***************************************************************************)
(* C7: a load from a fresh store resolves to null                           *)
(***************************************************************************)
\* no key slot and no record anywhere, no database
Fresh == StoredNames = {} /\ indexedDB = NoDatabase

\* C7: loadEncrypted(k) called on a store with no key slot and no records
\* resolves to null, for every backend and capability set
FreshLoad_C7 ==
    [][(Fresh /\ last'.op = "loadEncrypted" /\ IsNull(last'.password))
            => (last'.st = "ok" /\ IsNull(last'.v))]_vars

(***************************************************************************)
(* C8: the high-level operations never raise                                *)
(***************************************************************************)
\* C8: no saveEncrypted, loadEncrypted or clearAll rejects; when a backend
\* call throws during the call, or the persisted key is malformed when it is
\* made, saveEncrypted resolves false and loadEncrypted resolves null; when a
\* removal throws, clearAll resolves false
NeverRaise_C8 ==
    [][(last'.op # "none")
            => /\ last'.st # "throw"
               /\ (last'.op = "saveEncrypted" /\ (last'.fired \/ KeyMalformed))
                      => (last'.st = "ok" /\ IsFalse(last'.v))
               /\ (last'.op = "loadEncrypted" /\ (last'.fired \/ KeyMalformed))
                      => (last'.st = "ok" /\ IsNull(last'.v))
               /\ (last'.op = "clearAll" /\ last'.fired)
                      => (last'.st = "ok" /\ IsFalse(last'.v))]_vars

(***************************************************************************)
(* C10: a password-protected record survives the loss of the persisted key  *)
(***************************************************************************)
\* the persisted key is lost while the records are retained: a new session
\* or device that holds only the envelopes
LoseKey ==
    /\ Idle
    /\ KeySlot.t = "keytext"
    /\ IF features.localStorage
       THEN /\ localStorage' = [k \in DOMAIN localStorage \ {keyName} |-> localStorage[k]]
            /\ UNCHANGED << indexedDB, window >>
       ELSE IF features.indexedDB
       THEN /\ indexedDB' = [indexedDB EXCEPT !.data =
                                [k \in DOMAIN indexedDB.data \ {keyName} |-> indexedDB.data[k]]]
            /\ UNCHANGED << localStorage, window >>
       ELSE /\ window' = [window EXCEPT !._encryptionKey = JSUndefined]
            /\ UNCHANGED << localStorage, indexedDB >>
    /\ UNCHANGED << features, encryptionMethod, storageBackend, rng, last, saved,
                    recent, nSaves, calls, download, toolVars >>

\* saves and loads without or with the password 'p', between which the key
\* may be lost
NextKeyLoss ==
    \/ \E key \in RecordKeys, d \in DOMAIN DataValues, p \in {1, 2} :
            SaveEncrypted(key, DataValues[d], Passwords[p], "none")
    \/ \E key \in RecordKeys, p \in {1, 2} : LoadEncrypted(key, Passwords[p])
    \/ LoseKey
    \/ Forget

SpecKeyLoss == Init /\ [][NextKeyLoss]_vars

\* C10: when saveEncrypted(k, v, p) with a password p has resolved true and
\* the key slot is then lost while the envelope under k (a non-empty text)
\* is retained, the loadEncrypted(k, p) that follows resolves to v, in both
\* cipher modes
KeyLossSurvives_C10 ==
    [][(/\ last'.op = "loadEncrypted"
        /\ recent = last'.key
        /\ Truthy(saved[last'.key].password)
        /\ SameValue(last'.password, saved[last'.key].password)
        /\ KeySlotAbsent
        /\ Truthy(RecordAt(last'.key)))
            => (last'.st = "ok" /\ SameValue(last'.v, saved[last'.key].data))]_vars

(***************************************************************************)
(* C9: decrypt gives back what encrypt was given                            *)
(***************************************************************************)
\* data for the low-level calls: '', 'hi', '1', the euro sign (U+20AC),
\* {"a":1}, [true,null]
CipherValues ==
    << JSStr(<< >>), JSStr(<<104, 105>>), JSStr(<<49>>), JSStr(<<8364>>),
       JSObj(<< << <<97>>, JSNum(1) >> >>), JSArr(<< JSBool(TRUE), JSNull >>) >>

\* a direct call of encrypt(data, password)
Encrypt(data, password) ==
    /\ Idle
    /\ \E r \in {encrypt(World("none"), data, password)} :
        /\ Commit(r)
        /\ last' = [op |-> "encrypt", key |-> << >>, data |-> data,
                    password |-> password, fired |-> r.w.fired, after |-> recent,
                    st |-> r.st, v |-> r.v]
        /\ recent' = << >>
        /\ UNCHANGED << saved, nSaves >>

\* a direct call of decrypt on the envelope encrypt has just resolved with,
\* with the same password
Decrypt ==
    /\ last.op = "encrypt"
    /\ last.st = "ok"
    /\ \E r \in {decrypt(World("none"), last.v, last.password)} :
        /\ Commit(r)
        /\ last' = [op |-> "decrypt", key |-> << >>, data |-> last.data,
                    password |-> last.password, fired |-> r.w.fired, after |-> recent,
                    st |-> r.st, v |-> r.v]
        /\ UNCHANGED << saved, recent, nSaves >>

NextCipher ==
    \/ \E d \in DOMAIN CipherValues, p \in {1, 2} : Encrypt(CipherValues[d], Passwords[p])
    \/ Decrypt
    \/ Forget

SpecCipher == Init /\ [][NextCipher]_vars

\* a string that JSON.parse accepts: decrypt returns the parsed value for it,
\* the ambiguity the engine documents
JSONText(data) == data.t = "str" /\ JSONParse(data.v).ok

\* C9: decrypt(encrypt(v)) resolves to a value equal to v, of the same type
\* and content, for every string and every JSON-serializable structure v, in
\* both cipher modes, when nothing runs in between (stated for the strings
\* that are no JSON text and for the structures)
CipherRoundTrip_C9 ==
    (last.op = "decrypt" /\ ~JSONText(last.data)) => Resolved(last.data)

(***************************************************************************)
(* C11: the key a password-supplying save persists is derived from the      *)
(* password alone                                                           *)
(***************************************************************************)
\* C11: when saveEncrypted(k, v, p) with a password p has resolved true (k not
\* being the name of the key slot), the key slot holds the JSON text of
\* deriveKeyFromPassword(p), in both cipher modes: the persisted key is a
\* function of the password only, so two such calls leave identical key slots
PasswordKey_C11 ==
    (/\ last.op = "saveEncrypted"
     /\ Truthy(last.password)
     /\ last.key # keyName
     /\ Resolved(JSBool(TRUE)))
        => (KeySlot.t = "keytext" /\ KeySlot.v = deriveKeyFromPassword(last.password.v).v)

(***************************************************************************)
(* Calls that interleave at their await points                              *)
(*                                                                          *)
(* A call runs from one await to the next without interruption; at an      *)
(* await any other call in flight may run. saveEncrypted reads the key,     *)
(* then (in encrypt) generates and stores a key if needed and encrypts,     *)
(* then writes the envelope. loadEncrypted reads the envelope, reads the    *)
(* key, then (in decrypt) generates a key if needed and decrypts.           *)
(***************************************************************************)
\* record keys and new data of the calls in flight: 'note', 'encrypted-n';
\* {"a":1}
RaceKeys == RecordKeys \ {keyName}

\* a call in flight: pc is the await it stands at ("done": resolved with v,
\* "hung": it awaits a promise that never settles), k the key it loaded, env
\* the envelope it made or read, prev the envelope its write replaced, met
\* whether another call was in flight at one of its steps
NewCall(op, key, data, password, pc) ==
    [op |-> op, key |-> key, data |-> data, password |-> password, pc |-> pc,
     k |-> JSNull, env |-> JSNull, prev |-> JSNull, v |-> JSUndefined,
     met |-> \E j \in DOMAIN calls : calls[j].pc \notin {"done", "hung"}]

\* another call is in flight while call i makes a step
Meets(i) ==
    calls[i].met \/ \E j \in DOMAIN calls \ {i} : calls[j].pc \notin {"done", "hung"}

\* where a call stands once the step that ended as r is made: at next, or it
\* has resolved, or it hangs
PcAfter(r, next) ==
    IF r.st = "hang" THEN "hung" ELSE IF r.st = "throw" THEN "done" ELSE next

\* the browser state and the calls in flight after a step that ended as r
Land(r, cs) ==
    /\ r.w.rng <= MaxRandom
    /\ localStorage' = r.w.ls
    /\ indexedDB' = r.w.idb
    /\ window' = r.w.win
    /\ rng' = r.w.rng
    /\ calls' = cs
    /\ UNCHANGED << features, encryptionMethod, storageBackend, last, saved, recent,
                    nSaves, download, toolVars >>

\* both the envelope and the key are read without an await in between: the
\* record store and the key store are synchronous (localStorage or memory)
ReadsAtOnce ==
    /\ ~(features.indexedDB /\ storageBackend = "indexedDB" /\
         ~(features.localStorage /\ storageBackend = "localStorage"))
    /\ (features.localStorage \/ ~features.indexedDB)

\* saveEncrypted is called: encrypt calls loadKey, which reads the key slot
BeginSave(key, data, password) ==
    /\ Idle
    /\ Len(calls) < MaxCalls
    /\ \E r \in {loadKey(World("none"))} :
        Land(r, Append(calls,
                 [NewCall("saveEncrypted", key, data, password, PcAfter(r, "encrypt"))
                    EXCEPT !.k = r.v]))

\* encrypt goes on with the key it loaded: generates and stores a key when
\* there was none or a password is given, and encrypts
SaveSeal(i) ==
    /\ calls[i].op = "saveEncrypted"
    /\ calls[i].pc = "encrypt"
    /\ \E e \in {encryptKeyed(Ret(World("none"), "ok", calls[i].k), calls[i].data,
                              calls[i].password)} :
        Land(e, [calls EXCEPT ![i].pc = PcAfter(e, "put"),
                              ![i].met = Meets(i),
                              ![i].env = IF e.st = "ok" THEN e.v ELSE JSNull,
                              ![i].v = IF e.st = "throw" THEN JSBool(FALSE)
                                       ELSE JSUndefined])

\* saveEncrypted goes on with the envelope: writes it and resolves
SavePut(i) ==
    /\ calls[i].op = "saveEncrypted"
    /\ calls[i].pc = "put"
    /\ \E r \in {Caught(putRecord(World("none"), calls[i].key, calls[i].env),
                        JSBool(TRUE), JSBool(FALSE))} :
        Land(r, [calls EXCEPT ![i].pc = PcAfter(r, "done"),
                              ![i].met = Meets(i),
                              ![i].prev = RecordAt(calls[i].key),
                              ![i].v = r.v])

\* loadEncrypted, once it has the envelope g.v: decrypt calls loadKey, which
\* reads the key slot (r)
keyRead(c, g, r) ==
    IF ~Truthy(g.v) THEN [c EXCEPT !.pc = "done", !.v = JSNull]
    ELSE [c EXCEPT !.pc = PcAfter(r, "decrypt"), !.env = g.v, !.k = r.v]

\* loadEncrypted is called: it reads the envelope and, when no await lies in
\* between, the key slot
BeginLoad(key, password) ==
    /\ Idle
    /\ Len(calls) < MaxCalls
    /\ \E g \in {getRecord(World("none"), key)} :
        IF g.st = "ok" /\ ReadsAtOnce
        THEN Land(g, Append(calls,
                  keyRead(NewCall("loadEncrypted", key, JSNull, password, "loadKey"),
                          g, loadKey(g.w))))
        ELSE Land(g, Append(calls,
                  [NewCall("loadEncrypted", key, JSNull, password,
                           IF g.st = "ok" /\ ~Truthy(g.v) THEN "done"
                           ELSE PcAfter(g, "loadKey"))
                     EXCEPT !.env = g.v,
                            !.v = IF g.st = "ok" /\ ~Truthy(g.v) THEN JSNull
                                  ELSE JSUndefined]))

\* decrypt calls loadKey after an await: the key slot is read
LoadKeyed(i) ==
    /\ calls[i].op = "loadEncrypted"
    /\ calls[i].pc = "loadKey"
    /\ \E r \in {loadKey(World("none"))} :
        Land(r, [calls EXCEPT ![i] =
                    keyRead([calls[i] EXCEPT !.met = Meets(i)],
                            Ret(r.w, "ok", calls[i].env), r)])

\* decrypt goes on with the key it loaded: generates a key from the password
\* when there was none, decrypts, and loadEncrypted resolves
LoadOpen(i) ==
    /\ calls[i].op = "loadEncrypted"
    /\ calls[i].pc = "decrypt"
    /\ \E d \in {decryptedOrNull(decryptKeyed(Ret(World("none"), "ok", calls[i].k),
                                              calls[i].env, calls[i].password))} :
        Land(d, [calls EXCEPT ![i].pc = PcAfter(d, "done"), ![i].met = Meets(i),
                              ![i].v = d.v])

\* every call in flight has resolved or hangs
Settled == \A i \in DOMAIN calls : calls[i].pc \in {"done", "hung"}

\* a record and a key may be there from earlier ('hi' saved under a record
\* key, without or with the password 'p'); then calls are made that
\* interleave; once they are settled, records are loaded one at a time
NextRace ==
    \/ \E key \in RaceKeys, p \in {1, 2} :
            calls = << >> /\ ~saved[key].has
            /\ SaveEncrypted(key, DataValues[2], Passwords[p], "none")
    \/ \E key \in RaceKeys, p \in {1, 2} : BeginSave(key, DataValues[3], Passwords[p])
    \/ \E key \in RaceKeys, p \in {1, 2} : BeginLoad(key, Passwords[p])
    \/ \E i \in DOMAIN calls : SaveSeal(i)
    \/ \E i \in DOMAIN calls : SavePut(i)
    \/ \E i \in DOMAIN calls : LoadKeyed(i)
    \/ \E i \in DOMAIN calls : LoadOpen(i)
    \/ \E key \in RaceKeys, p \in {1, 2} :
            calls # << >> /\ Settled /\ LoadEncrypted(key, Passwords[p])
    \/ Forget

SpecRace == Init /\ [][NextRace]_vars

(***************************************************************************)
(* C12: saves of different record keys that interleave                      *)
(***************************************************************************)
\* the calls in flight were saveEncrypted calls of pairwise different record
\* keys (none the name of the key slot), and all have resolved true
SavesOfDifferentKeys ==
    /\ Len(calls) >= 2
    /\ \A i \in DOMAIN calls :
          /\ calls[i].op = "saveEncrypted"
          /\ calls[i].pc = "done"
          /\ IsTrue(calls[i].v)
          /\ \A j \in DOMAIN calls : calls[j].key = calls[i].key => j = i

\* C12 as stated: after saveEncrypted calls of different record keys that
\* interleaved, from any initial state (a key persisted or not) and with or
\* without passwords, have all resolved true, loadEncrypted(k) with the
\* password of the save of k (if any) resolves to the value saved under k
\* (looked at where the record holds a non-empty envelope)
DifferentKeys_C12 ==
    \A i \in DOMAIN calls :
        (/\ SavesOfDifferentKeys
         /\ last.op = "loadEncrypted"
         /\ last.key = calls[i].key
         /\ SameValue(last.password, calls[i].password)
         /\ Truthy(RecordAt(last.key)))
            => Resolved(calls[i].data)

\* the envelope env is what encrypt makes of data under the key k
SealedUnder(env, k, data) ==
    IF encryptionMethod = "webcrypto"
    THEN /\ env.t = "gcm"
         /\ env.v.key = importKey(k).v
         /\ env.v.pt = Utf8Encode(IF data.t = "str" THEN data.v ELSE JSONStringify(data))
    ELSE /\ env.t = "str"
         /\ env.v = encryptSimple(IF data.t = "str" THEN data.v
                                  ELSE JSONStringify(data), k).v.v

\* C12, amended: when a key is persisted before the calls and no call supplies
\* a password, saveEncrypted calls of different record keys (none the name of
\* the key slot) that interleave and all resolve true leave under each record
\* key the envelope of the value saved under it, encrypted under the
\* persisted key, and leave the key slot holding that key
DifferentKeysKeyed_C12 ==
    (/\ SavesOfDifferentKeys
     /\ calls[1].k.t = "bytes"
     /\ \A i \in DOMAIN calls : IsNull(calls[i].password))
        => /\ KeySlot.t = "keytext"
           /\ KeySlot.v = calls[1].k.v
           /\ \A i \in DOMAIN calls :
                 /\ RecordAt(calls[i].key).t = calls[i].env.t
                 /\ RecordAt(calls[i].key) = calls[i].env
                 /\ SealedUnder(calls[i].env, calls[1].k, calls[i].data)

\* saves of different record keys without password have interleaved over a
\* persisted key and have all resolved true
DifferentKeysKeyed_C12_witness ==
    /\ SavesOfDifferentKeys
    /\ calls[1].k.t = "bytes"
    /\ \A i \in DOMAIN calls : IsNull(calls[i].password) /\ calls[i].met

(***************************************************************************)
(* C13: a load that races with a save of the same record key                *)
(***************************************************************************)
\* call i is a loadEncrypted(k) that has resolved and call j the one
\* saveEncrypted(k, new) among the calls, over a record that held 'old'
LoadRacesSave(i, j) ==
    /\ calls[i].op = "loadEncrypted"
    /\ calls[j].op = "saveEncrypted"
    /\ calls[i].key = calls[j].key
    /\ \A h \in DOMAIN calls :
          (calls[h].op = "saveEncrypted" /\ calls[h].key = calls[j].key) => h = j
    /\ saved[calls[i].key].has
    /\ calls[i].pc = "done"

\* the load i resolved to old, to new, or to null
OldNewOrNull(i, j) ==
    \/ IsNull(calls[i].v)
    \/ SameValue(calls[i].v, saved[calls[i].key].data)
    \/ SameValue(calls[i].v, calls[j].data)

\* once all calls are settled and the save j resolved true, the record holds
\* the envelope that save wrote
LastWriterWins(j) ==
    (Settled /\ calls[j].pc = "done" /\ IsTrue(calls[j].v))
        => /\ RecordAt(calls[j].key).t = calls[j].env.t
           /\ RecordAt(calls[j].key) = calls[j].env

\* C13 as stated: when loadEncrypted(k) runs concurrently with
\* saveEncrypted(k, new) (with or without a password) over a record that
\* holds old, the load resolves to old, to new, or to null and never to any
\* other value, and after all calls complete the envelope stored under k is
\* the one written by the last writer
SameKeyRace_C13 ==
    \A i \in DOMAIN calls, j \in DOMAIN calls :
        LoadRacesSave(i, j) => (OldNewOrNull(i, j) /\ LastWriterWins(j))

\* C13, amended: the envelope such a load decrypts is the old envelope or the
\* new one, whole; in authenticated (webcrypto) mode the load resolves to old,
\* to new, or to null; after all calls complete the envelope stored under k
\* is the one the save wrote
SameKeyRaceAuth_C13 ==
    \A i \in DOMAIN calls, j \in DOMAIN calls :
        LoadRacesSave(i, j)
            => /\ (encryptionMethod = "webcrypto") => OldNewOrNull(i, j)
               /\ (Truthy(calls[i].env) /\ calls[j].pc = "done" /\ IsTrue(calls[j].v))
                      => \/ calls[i].env = calls[j].env
                         \/ (calls[i].env.t = calls[j].prev.t
                             /\ calls[i].env = calls[j].prev)
               /\ LastWriterWins(j)

\* in authenticated mode a load has raced with a save of the same record key
\* that changed the key (a password save), both resolved, and the load, which
\* read the old envelope, resolved to null
SameKeyRaceAuth_C13_witness ==
    \E i \in DOMAIN calls, j \in DOMAIN calls :
        /\ LoadRacesSave(i, j)
        /\ encryptionMethod = "webcrypto"
        /\ calls[i].met /\ calls[j].met
        /\ Settled /\ calls[j].pc = "done" /\ IsTrue(calls[j].v)
        /\ Truthy(calls[j].password)
        /\ calls[i].env.t = calls[j].prev.t /\ calls[i].env = calls[j].prev
        /\ IsNull(calls[i].v)

(***************************************************************************)
(* C14: the backend is selected by tier                                     *)
(***************************************************************************)
\* the tier C14 names: the configured backend when it is available, else the
\* next available one in the order localStorage, indexedDB, memory
CascadeTier ==
    IF storageBackend = "localStorage" /\ features.localStorage THEN "localStorage"
    ELSE IF storageBackend \in {"localStorage", "indexedDB"} /\ features.indexedDB
    THEN "indexedDB"
    ELSE "memory"

\* C14: a saveEncrypted that resolved true has written its envelope to the
\* store of that tier, and a loadEncrypted reads the store of that tier (when
\* it is indexedDB, the load has opened the database)
BackendCascade_C14 ==
    /\ (last.op = "saveEncrypted" /\ Resolved(JSBool(TRUE)))
            => last.key \in (IF CascadeTier = "localStorage" THEN DOMAIN localStorage
                             ELSE IF CascadeTier = "indexedDB" THEN DOMAIN indexedDB.data
                             ELSE DOMAIN MemoryStore(World("none")))
    /\ (last.op = "loadEncrypted" /\ CascadeTier = "indexedDB") => indexedDB.exists

(***************************************************************************)
(* Direct calls of decrypt on an envelope                                   *)
(***************************************************************************)
\* an envelope that comes from elsewhere (a backup, another browser): 'QiY='
ForeignEnvelope == JSStr(<<81, 105, 89, 61>>)

\* a direct call of decrypt(encryptedData, password)
DecryptEnvelope(encryptedData, password) ==
    /\ Idle
    /\ Truthy(encryptedData)
    /\ \E r \in {decrypt(World("none"), encryptedData, password)} :
        /\ Commit(r)
        /\ last' = [op |-> "decrypt", key |-> << >>, data |-> JSNull,
                    password |-> password, fired |-> r.w.fired, after |-> recent,
                    st |-> r.st, v |-> r.v]
        /\ recent' = << >>
        /\ UNCHANGED << saved, nSaves >>

\* saves and loads of 'hi', between which the key may be lost, and direct
\* calls of decrypt on a stored envelope or on a foreign one
NextDirect ==
    \/ \E key \in RecordKeys, p \in {1, 2} :
            SaveEncrypted(key, DataValues[2], Passwords[p], "none")
    \/ \E key \in RecordKeys, p \in {1, 2} : LoadEncrypted(key, Passwords[p])
    \/ \E key \in RecordKeys, p \in {1, 2} : DecryptEnvelope(RecordAt(key), Passwords[p])
    \/ \E p \in {1, 2} : DecryptEnvelope(ForeignEnvelope, Passwords[p])
    \/ LoseKey
    \/ Forget

SpecDirect == Init /\ [][NextDirect]_vars

(***************************************************************************)
(* C15: no key available                                                    *)
(***************************************************************************)
\* C15: decrypt(e) called when no key is persisted and no password is
\* supplied rejects with the error 'No encryption key available' and leaves
\* the key slot absent; loadEncrypted of an existing record in that state
\* resolves to null
NoKey_C15 ==
    [][/\ (last'.op = "decrypt" /\ KeySlotAbsent /\ IsNull(last'.password))
            => /\ last'.st = "throw"
               /\ last'.v.t = "error"
               /\ last'.v.v = "No encryption key available"
               /\ KeySlotAbsent'
       /\ (last'.op = "loadEncrypted" /\ KeySlotAbsent /\ IsNull(last'.password)
                /\ Truthy(RecordAt(last'.key)))
            => (last'.st = "ok" /\ IsNull(last'.v))]_vars

(***************************************************************************)
(* C16: clearAll isolates the failure of one backend                        *)
(***************************************************************************)
\* C16: when localStorage.removeItem throws during clearAll, the other
\* backends are cleared all the same: afterwards the database is deleted and
\* neither the in-memory key nor the in-memory records are left
ClearAllIsolates_C16 ==
    (last.op = "clearAll" /\ last.fired)
        => /\ indexedDB = NoDatabase
           /\ window._encryptionKey.t = "undef"
           /\ window._encryptedStorage.t = "undef"

(***************************************************************************)
(* C17: the engine works again after clearAll                               *)
(***************************************************************************)
\* clearAll has resolved true after a record was saved, and that record was
\* not saved again: what was called since came after the clearAll
AfterClear == \E k \in RecordKeys : saved[k].cleared

\* C17: a saveEncrypted(k, v) made after clearAll has completed resolves true
\* (no backend fault being raised) and leaves a key persisted in the key slot,
\* and the loadEncrypted(k) that follows it resolves to v, on every backend
\* (looked at for record keys other than the name of the key slot and for
\* records that hold a non-empty envelope)
RecoverAfterClear_C17 ==
    /\ (last.op = "saveEncrypted" /\ IsNull(last.password) /\ ~last.fired /\ AfterClear
            /\ last.key # keyName)
            => (Resolved(JSBool(TRUE)) /\ KeySlot.t = "keytext")
    /\ (LoadAfterSave /\ AfterClear /\ IsNull(saved[last.key].password)
            /\ IsNull(last.password) /\ last.key # keyName /\ Truthy(RecordAt(last.key)))
            => Resolved(saved[last.key].data)

(***************************************************************************)
(* C18: tamper detection in the authenticated mode                          *)
(***************************************************************************)
\* somebody with access to the store changes one character of the stored
\* envelope of a record: character i of the base64 text becomes the next
\* character of the alphabet, or '!', which is outside it
TamperRecord(key, i, outside) ==
    /\ Idle
    /\ RecordAt(key).t = "gcm"
    /\ \E text \in {bytesToBase64(GcmBytes(RecordAt(key).v)).v} :
        /\ i \in DOMAIN text
        /\ \E c \in {IF outside THEN 33 ELSE B64Char((B64Val(text[i]) + 1) % 64)} :
           IF features.localStorage /\ storageBackend = "localStorage"
           THEN /\ localStorage' = MapPut(localStorage, key, JSStr([text EXCEPT ![i] = c]))
                /\ UNCHANGED << indexedDB, window >>
           ELSE IF features.indexedDB /\ storageBackend = "indexedDB"
           THEN /\ indexedDB' = [indexedDB EXCEPT !.data =
                                    MapPut(indexedDB.data, key, JSStr([text EXCEPT ![i] = c]))]
                /\ UNCHANGED << localStorage, window >>
           ELSE /\ window' = [window EXCEPT !._encryptedStorage.v =
                                    MapPut(window._encryptedStorage.v, key,
                                           JSStr([text EXCEPT ![i] = c]))]
                /\ UNCHANGED << localStorage, indexedDB >>
    /\ UNCHANGED << features, encryptionMethod, storageBackend, rng, last, saved,
                    recent, nSaves, calls, download, toolVars >>

\* saves of the record 'note' without password, a change of one character of
\* its stored envelope, and loads and direct decrypts of what is stored
NextTamper ==
    \/ \E d \in {2, 3} : SaveEncrypted(<<110, 111, 116, 101>>, DataValues[d], JSNull, "none")
    \/ \E i \in 1..MaxEnvelope, outside \in BOOLEAN : TamperRecord(<<110, 111, 116, 101>>, i, outside)
    \/ LoadEncrypted(<<110, 111, 116, 101>>, JSNull)
    \/ DecryptEnvelope(RecordAt(<<110, 111, 116, 101>>), JSNull)
    \/ Forget

SpecTamper == Init /\ [][NextTamper]_vars

\* C18: in the authenticated mode, once one character of the stored envelope
\* of a record was changed, decrypt of that envelope under the same key
\* rejects, and loadEncrypted of the record resolves to null
TamperDetected_C18 ==
    (encryptionMethod = "webcrypto" /\ RecordAt(<<110, 111, 116, 101>>).t = "str")
        => /\ last.op = "decrypt" => last.st = "throw"
           /\ last.op = "loadEncrypted" => Resolved(JSNull)

(***************************************************************************)
(* C19: export, clearAll and import of the demo page (src/app.js), whose    *)
(* demoStorage is new EncryptedStorage() with the default options           *)
(***************************************************************************)
\* handleExportData: the data section of the export, every localStorage item
\* whose name does not start with 'pwa-' and whose value is not empty
handleExportData(ls) ==
    IF features.localStorage
    THEN [k \in {n \in DOMAIN ls : ~StartsWith(n, <<112, 119, 97, 45>>) /\ Truthy(ls[n])}
            |-> ls[k]]
    ELSE << >>

\* a value of the data section as handleImportData reads it: the file is
\* JSON.stringify of the export, read back with JSON.parse
fileValue(x) == IF x.t = "str" THEN JSONParse(JSONStringify(x)).v ELSE x

\* the demo page exports its data
ExportData ==
    /\ Idle
    /\ storageBackend = "localStorage"
    /\ download.stage = "none"
    /\ download' =
          [stage |-> "exported",
           data |-> handleExportData(localStorage),
           records |-> [k \in RecordKeys |-> RecordAt(k)],
           before |-> [k \in RecordKeys |->
                          [st |-> loadEncrypted(World("none"), k, saved[k].password).st,
                           v |-> loadEncrypted(World("none"), k, saved[k].password).v]]]
    /\ UNCHANGED << features, encryptionMethod, storageBackend, localStorage,
                    indexedDB, window, rng, last, saved, recent, nSaves, calls,
                    toolVars >>

\* handleImportData, once the file is chosen and the import confirmed, right
\* after clearAll: each value is stored under its name, in localStorage or in
\* the in-memory map
ImportData ==
    /\ last.op = "clearAll"
    /\ download.stage = "exported"
    /\ download' = [download EXCEPT !.stage = "imported"]
    /\ last' = NoCall
    /\ IF features.localStorage
       THEN /\ localStorage' =
                  [k \in DOMAIN localStorage \cup DOMAIN download.data |->
                      IF k \in DOMAIN download.data THEN fileValue(download.data[k])
                      ELSE localStorage[k]]
            /\ UNCHANGED window
       ELSE /\ window' = [window EXCEPT !._encryptedStorage =
                  [t |-> "map",
                   v |-> [k \in DOMAIN MemoryStore(World("none")) \cup DOMAIN download.data |->
                            IF k \in DOMAIN download.data THEN fileValue(download.data[k])
                            ELSE MemoryStore(World("none"))[k]]]]
            /\ UNCHANGED localStorage
    /\ UNCHANGED << features, encryptionMethod, storageBackend, indexedDB, rng,
                    saved, recent, nSaves, calls, toolVars >>

\* saves, then the export, clearAll and the import of the exported file, and
\* loads at any time
NextBackup ==
    \/ \E key \in RaceKeys, d \in {2, 3}, p \in {1, 2} :
            /\ storageBackend = "localStorage"
            /\ download.stage = "none"
            /\ SaveEncrypted(key, DataValues[d], Passwords[p], "none")
    \/ \E key \in RaceKeys, p \in {1, 2} : LoadEncrypted(key, Passwords[p])
    \/ ExportData
    \/ (download.stage = "exported" /\ ClearAll("none"))
    \/ ImportData
    \/ Forget

SpecBackup == Init /\ [][NextBackup]_vars

\* C19: after the export, clearAll and the import of the exported file, every
\* record the store held at the export is stored again unchanged under its
\* key, and a load with the password of its save resolves to what that load
\* resolved to before the export
BackupRestore_C19 ==
    download.stage = "imported" =>
        /\ \A k \in RaceKeys :
              Truthy(download.records[k])
                  => (RecordAt(k).t = download.records[k].t
                      /\ RecordAt(k) = download.records[k])
        /\ (/\ last.op = "loadEncrypted"
            /\ SameValue(last.password, saved[last.key].password)
            /\ download.before[last.key].st = "ok"
            /\ ~IsNull(download.before[last.key].v))
              => Resolved(download.before[last.key].v)

(***************************************************************************)
(* C20: capabilities and cipher mode are fixed per instance                 *)
(***************************************************************************)
\* C20: no operation changes features or encryptionMethod, encryptionMethod is
\* 'webcrypto' exactly when features.webCrypto is true, and every save that
\* resolves true stores an envelope of that cipher: an AES-GCM envelope
\* exactly when features.webCrypto is true
CipherModeFixed_C20 ==
    [][/\ UNCHANGED << features, encryptionMethod >>
       /\ (encryptionMethod' = "webcrypto") <=> features'.webCrypto
       /\ (last'.op = "saveEncrypted" /\ last'.st = "ok" /\ IsTrue(last'.v))
            => ((RecordAt(last.key).t = "gcm")' <=> features.webCrypto)]_vars

\* a second save of one instance resolved true in the authenticated mode, and
\* both stored envelopes are AES-GCM envelopes
CipherModeFixed_C20_witness ==
    /\ features.webCrypto
    /\ last.op = "saveEncrypted"
    /\ Resolved(JSBool(TRUE))
    /\ \A k \in RaceKeys :
          saved[k].has /\ ~saved[k].cleared /\ RecordAt(k).t = "gcm"

(***************************************************************************)
(* C21: the persisted key stays until a password or clearAll replaces it    *)
(***************************************************************************)
\* sequential calls of encrypt, saveEncrypted, decrypt, loadEncrypted and
\* clearAll, with and without the password 'p', on the record keys that are
\* not the name of the key slot
NextKeySlot ==
    \/ \E key \in RaceKeys, p \in {1, 2} :
            SaveEncrypted(key, DataValues[2], Passwords[p], "none")
    \/ \E key \in RaceKeys, p \in {1, 2} : LoadEncrypted(key, Passwords[p])
    \/ \E d \in {2, 3}, p \in {1, 2} : Encrypt(DataValues[d], Passwords[p])
    \/ \E key \in RaceKeys, p \in {1, 2} : DecryptEnvelope(RecordAt(key), Passwords[p])
    \/ ClearAll("none")
    \/ Forget

SpecKeySlot == Init /\ [][NextKeySlot]_vars

\* C21: once a key is persisted, a call of encrypt, saveEncrypted, decrypt or
\* loadEncrypted without password leaves the key slot as it was, and what
\* encrypt or saveEncrypted then produces is encrypted under the key of the
\* slot; the slot changes only by an encrypt or saveEncrypted with a
\* password or by clearAll
KeyStable_C21 ==
    [][(KeySlot.t = "keytext" /\ last.op = "none" /\ last'.op # "none")
        => /\ IsNull(last'.password) /\ last'.op # "clearAll"
                => /\ KeySlot'.t = "keytext" /\ KeySlot'.v = KeySlot.v
                   /\ (last'.op = "encrypt" /\ last'.st = "ok")
                        => SealedUnder(last'.v, ArrayOf(KeySlot.v), last'.data)
                   /\ (last'.op = "saveEncrypted" /\ last'.st = "ok" /\ IsTrue(last'.v))
                        => SealedUnder(RecordAt(last.key)', ArrayOf(KeySlot.v), last'.data)
           /\ ~(KeySlot'.t = "keytext" /\ KeySlot'.v = KeySlot.v)
                => \/ last'.op = "clearAll"
                   \/ last'.op \in {"encrypt", "saveEncrypted"} /\ Truthy(last'.password)
      ]_vars

\* a save without password resolved true after a save with the password 'p'
\* of another record: the key slot holds the key made from the password and
\* the new envelope is encrypted under it
KeyStable_C21_witness ==
    /\ last.op = "saveEncrypted" /\ IsNull(last.password) /\ Resolved(JSBool(TRUE))
    /\ KeySlot.t = "keytext"
    /\ \E k \in RaceKeys \ {last.key} :
          saved[k].has /\ ~saved[k].cleared /\ Truthy(saved[k].password)
          /\ SealedUnder(RecordAt(k), ArrayOf(KeySlot.v), saved[k].data)
    /\ SealedUnder(RecordAt(last.key), ArrayOf(KeySlot.v), last.data)

(***************************************************************************)
(* C22: the IndexedDB operations settle                                     *)
(***************************************************************************)
\* C22: when the records or the key slot live in indexedDB (backend
\* 'indexedDB', or localStorage unavailable), every loadEncrypted and
\* saveEncrypted call settles (its promise does not stay pending forever),
\* whatever calls came before it from a database that did not exist
IndexedDBSettles_C22 ==
    (/\ last.op \in {"loadEncrypted", "saveEncrypted"}
     /\ features.indexedDB
     /\ (storageBackend = "indexedDB" \/ ~features.localStorage))
        => last.st # "hang"

(***************************************************************************)
(* C23: a record written in one cipher mode and loaded in the other         *)
(***************************************************************************)
\* the page is loaded again where Web Crypto is, or is no longer, available:
\* the constructor runs anew over the persistent stores, and what was kept in
\* memory is gone
Reconstruct(webCrypto) ==
    /\ Idle
    /\ features.webCrypto # webCrypto
    /\ features' = [features EXCEPT !.webCrypto = webCrypto]
    /\ encryptionMethod' = IF webCrypto THEN "webcrypto" ELSE "simple"
    /\ window' = [_encryptionKey |-> JSUndefined, _encryptedStorage |-> JSUndefined]
    /\ indexedDB' = [indexedDB EXCEPT !.open = FALSE]
    /\ UNCHANGED << storageBackend, localStorage, rng, last, saved,
                    recent, nSaves, calls, download, toolVars >>

\* saves and loads of the record 'note' without password, between which the
\* cipher mode of the instance may change
NextCrossMode ==
    \/ \E d \in {2, 3} : SaveEncrypted(<<110, 111, 116, 101>>, DataValues[d], JSNull, "none")
    \/ LoadEncrypted(<<110, 111, 116, 101>>, JSNull)
    \/ \E webCrypto \in BOOLEAN : Reconstruct(webCrypto)
    \/ Forget

SpecCrossMode == Init /\ [][NextCrossMode]_vars

\* C23: a loadEncrypted of a stored envelope made by the other cipher mode
\* than the one of the loading instance resolves to null
CrossMode_C23 ==
    (/\ last.op = "loadEncrypted"
     /\ RecordAt(last.key).t \in {"gcm", "str"}
     /\ (RecordAt(last.key).t = "gcm") # (encryptionMethod = "webcrypto"))
        => Resolved(JSNull)

\* C23, amended: a loadEncrypted by an instance in the authenticated mode of a
\* stored envelope made by the fallback cipher resolves to null
CrossModeAuth_C23 ==
    (/\ last.op = "loadEncrypted"
     /\ encryptionMethod = "webcrypto"
     /\ RecordAt(last.key).t = "str")
        => Resolved(JSNull)

\* an instance in the authenticated mode has loaded a fallback envelope with
\* the key that made it still in the key slot, and the load resolved to null
CrossModeAuth_C23_witness ==
    /\ last.op = "loadEncrypted"
    /\ encryptionMethod = "webcrypto"
    /\ RecordAt(last.key).t = "str"
    /\ KeySlot.t = "keytext"
    /\ decryptSimple(RecordAt(last.key), ArrayOf(KeySlot.v)).v.v
          = (IF saved[last.key].data.t = "str" THEN saved[last.key].data.v
             ELSE JSONStringify(saved[last.key].data))
    /\ Resolved(JSNull)

(***************************************************************************)
(* C24, C25: the fallback key derivation and the fallback cipher            *)
(***************************************************************************)
\* a call of deriveKeyFromPassword(password)
DeriveKey(password) ==
    /\ Idle
    /\ last' = [op |-> "deriveKeyFromPassword", key |-> << >>, data |-> JSNull,
                password |-> password, fired |-> FALSE, after |-> recent,
                st |-> "ok", v |-> deriveKeyFromPassword(password.v)]
    /\ UNCHANGED << features, encryptionMethod, storageBackend, localStorage,
                    indexedDB, window, rng, saved, recent, nSaves, calls, download, toolVars >>

\* a call of encryptSimple(data, key)
EncryptSimple(data, key) ==
    /\ Idle
    /\ last' = [op |-> "encryptSimple", key |-> key, data |-> JSStr(data),
                password |-> JSNull, fired |-> FALSE, after |-> recent,
                st |-> IF encryptSimple(data, ArrayOf(key)).ok THEN "ok" ELSE "throw",
                v |-> encryptSimple(data, ArrayOf(key)).v]
    /\ UNCHANGED << features, encryptionMethod, storageBackend, localStorage,
                    indexedDB, window, rng, saved, recent, nSaves, calls, download, toolVars >>

\* derivations from the passwords 'p' and 'q', and encryptions under a key of
\* one byte, of three bytes and of 32 bytes of every plaintext of up to
\* MaxPlain characters out of '\0', 'A', U+00FF and U+20AC
NextSimple ==
    \/ \E p \in {2, 3} : DeriveKey(Passwords[p])
    \/ \E data \in UNION { [1..n -> {0, 65, 255, 8364}] : n \in 0..MaxPlain },
          key \in { <<1>>, <<255, 0, 128>>, RandomBytes(1, 32) } :
            EncryptSimple(data, key)
    \/ Forget

SpecSimple == Init /\ [][NextSimple]_vars

\* C24: without Web Crypto, deriveKeyFromPassword of a non-empty password
\* returns 32 elements, each an integer in 0..255
DerivedKeyBytes_C24 ==
    (last.op = "deriveKeyFromPassword" /\ ~features.webCrypto)
        => /\ last.v.t = "bytes"
           /\ Len(last.v.v) = 32
           /\ \A i \in 1..32 : last.v.v[i] \in 0..255

\* C25: for a non-empty key of bytes and a plaintext of characters in 0..255,
\* the decoded output of encryptSimple has as many bytes as the plaintext,
\* byte i is plaintext[i] XOR key[i mod key length], and decryptSimple of the
\* output under the key is the plaintext
SimpleCipher_C25 ==
    (last.op = "encryptSimple" /\ \A i \in DOMAIN last.data.v : last.data.v[i] <= 255)
        => /\ last.st = "ok"
           /\ base64ToBytes(last.v.v).ok
           /\ Len(base64ToBytes(last.v.v).v) = Len(last.data.v)
           /\ \A i \in DOMAIN last.data.v :
                 base64ToBytes(last.v.v).v[i]
                    = Xor(last.data.v[i], last.key[((i - 1) % Len(last.key)) + 1])
           /\ decryptSimple(last.v, ArrayOf(last.key)).ok
           /\ decryptSimple(last.v, ArrayOf(last.key)).v = last.data

\* a plaintext of bytes longer than the key was encrypted: the key repeats
SimpleCipher_C25_witness ==
    /\ last.op = "encryptSimple"
    /\ Len(last.data.v) > Len(last.key)
    /\ \A i \in DOMAIN last.data.v : last.data.v[i] <= 255
    /\ \E i \in DOMAIN last.data.v : last.data.v[i] = 255
    /\ decryptSimple(last.v, ArrayOf(last.key)).v = last.data

(***************************************************************************)
(* C26: the key slot holds nothing but a key                                *)
(***************************************************************************)
\* C26: in every reachable state the key slot is absent or holds the JSON
\* array of key bytes that storeKey wrote; no saveEncrypted, whatever its
\* record key, puts an envelope there
KeySlotIntegrity_C26 == KeySlotAbsent \/ KeySlot.t = "keytext"

(***************************************************************************)
(* C27: a save that resolves false leaves the stores as they were           *)
(***************************************************************************)
\* C27: whenever saveEncrypted resolves false, the key slot and the envelope
\* of every record are what they were before the call
FailedSaveKeeps_C27 ==
    [][(last'.op = "saveEncrypted" /\ last.op = "none"
        /\ last'.st = "ok" /\ IsFalse(last'.v))
        => /\ KeySlot'.t = KeySlot.t /\ KeySlot' = KeySlot
           /\ \A k \in RecordKeys :
                 RecordAt(k)'.t = RecordAt(k).t /\ RecordAt(k)' = RecordAt(k)]_vars

(***************************************************************************)
(* C28: loadEncrypted writes nothing but a first key                        *)
(***************************************************************************)
\* C28: loadEncrypted leaves the envelope of every record (under a name
\* other than that of the key slot, which holds the key) as it was; it
\* changes the key slot only when there is a record under its key, the key
\* slot is absent and a password is given; and when there is no record under
\* its key it changes neither the key slot nor any record
LoadReadOnly_C28 ==
    [][(last'.op = "loadEncrypted" /\ last.op = "none")
        => /\ \A k \in RecordKeys \ {keyName} :
                 RecordAt(k)'.t = RecordAt(k).t /\ RecordAt(k)' = RecordAt(k)
           /\ ~(KeySlot'.t = KeySlot.t /\ KeySlot' = KeySlot)
                => /\ Truthy(RecordAt(last'.key))
                   /\ KeySlotAbsent
                   /\ Truthy(last'.password)
           /\ ~Truthy(RecordAt(last'.key))
                => (KeySlot'.t = KeySlot.t /\ KeySlot' = KeySlot)]_vars

(***************************************************************************)
(* C29: a save with password locks out the records saved before it          *)
(***************************************************************************)
\* the record k1 was saved under a key other than the one made from the
\* password of the later save of the record k2, and neither was cleared
LockedOut(k1, k2) ==
    /\ k1 # k2
    /\ saved[k1].has /\ ~saved[k1].cleared
    /\ saved[k2].has /\ ~saved[k2].cleared
    /\ Truthy(saved[k2].password)
    /\ RecordAt(k1).t = "gcm"
    /\ RecordAt(k1).v.key # deriveKeyFromPassword(saved[k2].password.v).v

\* C29: in the authenticated mode, after saveEncrypted(k1, v1) under a key K
\* and then saveEncrypted(k2, v2, p) whose key differs from K, loadEncrypted
\* of k1 without password and with p resolve to null, and loadEncrypted(k2)
\* resolves to v2
PasswordLockout_C29 ==
    (encryptionMethod = "webcrypto" /\ last.op = "loadEncrypted")
        => \A k1, k2 \in RecordKeys :
              LockedOut(k1, k2)
                => /\ (/\ last.key = k1
                       /\ (IsNull(last.password)
                           \/ SameValue(last.password, saved[k2].password)))
                        => Resolved(JSNull)
                   /\ (last.key = k2 /\ IsNull(last.password))
                        => Resolved(saved[k2].data)

(***************************************************************************)
(* C30: clearAll settles                                                   *)
(***************************************************************************)
\* C30: every clearAll resolves (to true or false), also when the deletion
\* of the database is blocked by the connections that earlier
\* storeInIndexedDB and loadFromIndexedDB calls left open
ClearAllSettles_C30 ==
    last.op = "clearAll" => (last.st = "ok" /\ last.v.t = "bool")

(***************************************************************************)
(* ProductivityStorage (ProductivityTools/storage.js)                      *)
(***************************************************************************)
\* this.storageKey: 'productivity-tools-data'
storageKey == <<112, 114, 111, 100, 117, 99, 116, 105, 118, 105, 116, 121, 45, 116, 111, 111, 108, 115, 45, 100, 97, 116, 97>>

\* this.autoSaveDelay, in milliseconds
autoSaveDelay == 1000

\* obj[name]: undefined when obj has no such member or is no object
Property(obj, name) ==
    IF obj.t = "obj" /\ \E i \in 1..Len(obj.v) : obj.v[i][1] = name
    THEN obj.v[CHOOSE i \in 1..Len(obj.v) : obj.v[i][1] = name][2]
    ELSE JSUndefined

\* JSON.parse of the stored item, {} when there is none or when reading or
\* parsing throws (localStorage unavailable: the access itself throws)
parsedOrEmpty(stored) ==
    IF ~features.localStorage \/ ~Truthy(stored) \/ stored.t # "str"
    THEN JSObj(<< >>)
    ELSE OrElse(JSONParse(stored.v), JSObj(<< >>))

\* getAllData
getAllData(ls) == parsedOrEmpty(MapGet(ls, storageKey, JSNull))

\* the entry saveAppData makes: {data, lastModified: Date.now(), version}
appEntry(data, now) ==
    JSObj(<< << <<100, 97, 116, 97>>, data >>, << <<108, 97, 115, 116, 77, 111, 100, 105, 102, 105, 101, 100>>, JSNum(now) >>, << <<118, 101, 114, 115, 105, 111, 110>>, JSStr(<<49, 46, 48>>) >> >>)

\* saveAppData, once getAllData returned allData: the entry is set under
\* appName and the whole object is written back; an error is only logged.
\* fails: setItem throws
savedAllData(ls, allData, appName, entry, fails) ==
    IF ~features.localStorage \/ fails \/ allData.t # "obj" THEN ls
    ELSE MapPut(ls, storageKey,
                JSStr(JSONStringify(JSObj(PutMember(allData.v, appName, entry)))))

\* saveAppData
saveAppData(ls, appName, data, now, fails) ==
    savedAllData(ls, getAllData(ls), appName, appEntry(data, now), fails)

\* loadAppData, once allData[appName] is read: appData.data when appData &&
\* appData.data, else defaultData
dataOrDefault(appData, defaultData) ==
    IF Truthy(appData) /\ Truthy(Property(appData, <<100, 97, 116, 97>>))
    THEN Property(appData, <<100, 97, 116, 97>>)
    ELSE defaultData

\* loadAppData
loadAppData(ls, appName, defaultData) ==
    dataOrDefault(Property(getAllData(ls), appName), defaultData)

\* the pending auto-save timers of an app name
PendingAutoSaves(appName) ==
    {t \in timers.active : t.owner = "autoSave" /\ t.app = appName}

\* autoSave without the clearTimeout of the timer it replaces
autoSaveKeeping(appName, data) ==
    [active |-> timers.active
                  \cup {[id |-> timers.nextId, owner |-> "autoSave", app |-> appName,
                         data |-> data, due |-> timers.now + autoSaveDelay]},
     autoSaveTimers |-> MapPut(autoSaveTimers, appName, timers.nextId)]

\* autoSave: clearTimeout of the timer kept for appName, then a new timeout
\* of autoSaveDelay, kept under appName; the timers of the page and
\* autoSaveTimers after the call
autoSave(appName, data) ==
    [active |-> {t \in timers.active :
                    appName \in DOMAIN autoSaveTimers => t.id # autoSaveTimers[appName]}
                  \cup {[id |-> timers.nextId, owner |-> "autoSave", app |-> appName,
                         data |-> data, due |-> timers.now + autoSaveDelay]},
     autoSaveTimers |-> MapPut(autoSaveTimers, appName, timers.nextId)]

\* what a call of the page outside the encrypted store leaves alone
StoreUnchanged ==
    UNCHANGED << features, encryptionMethod, storageBackend, indexedDB, window,
                 rng, saved, recent, nSaves, calls, download >>

\* a call of ProductivityStorage and what it returned
ToolCall(op, appName, data, v) ==
    [op |-> op, key |-> appName, data |-> data, password |-> JSNull,
     fired |-> FALSE, after |-> << >>, st |-> "ok", v |-> v]

\* a tool calls autoSave(appName, data)
AutoSave(appName, data) ==
    /\ timers.nextId <= MaxTimers
    /\ timers.now + autoSaveDelay <= MaxTime
    /\ \E r \in {autoSave(appName, data)} :
        /\ timers' = [timers EXCEPT !.nextId = @ + 1, !.active = r.active]
        /\ autoSaveTimers' = r.autoSaveTimers
    /\ bursts' = [bursts EXCEPT ![appName] =
          IF @.done
          THEN [@ EXCEPT !.calls = 1, !.at = timers.now, !.data = data,
                         !.tight = TRUE, !.saves = 0, !.done = FALSE]
          ELSE [@ EXCEPT !.calls = @ + 1, !.at = timers.now, !.data = data,
                         !.tight = @ /\ timers.now - bursts[appName].at < autoSaveDelay]]
    /\ last' = ToolCall("autoSave", appName, data, JSUndefined)
    /\ UNCHANGED << localStorage, cloud >>
    /\ StoreUnchanged

\* the callback of an auto-save timer runs, at its time or later:
\* saveAppData, then autoSaveTimers.delete(appName)
AutoSaveTimer(fails) ==
    \E t \in timers.active :
        /\ t.owner = "autoSave"
        /\ t.due <= timers.now
        /\ timers' = [timers EXCEPT !.active = @ \ {t}]
        /\ \E ls \in {saveAppData(localStorage, t.app, t.data, timers.now, fails)} :
              localStorage' = ls
        /\ autoSaveTimers' = [a \in DOMAIN autoSaveTimers \ {t.app} |-> autoSaveTimers[a]]
        /\ bursts' = [bursts EXCEPT ![t.app] =
              [@ EXCEPT !.done = TRUE, !.saves = @ + 1, !.has = TRUE, !.written = t.data]]
        /\ last' = ToolCall("autoSaveTimer", t.app, t.data, JSUndefined)
        /\ UNCHANGED cloud
        /\ StoreUnchanged

\* a tool calls saveAppData(appName, data)
SaveAppData(appName, data, fails) ==
    /\ localStorage' = saveAppData(localStorage, appName, data, timers.now, fails)
    /\ bursts' = [bursts EXCEPT ![appName] = [@ EXCEPT !.has = TRUE, !.written = data]]
    /\ last' = ToolCall("saveAppData", appName, data, JSUndefined)
    /\ UNCHANGED << timers, autoSaveTimers, cloud >>
    /\ StoreUnchanged

\* a tool calls loadAppData(appName, defaultData)
LoadAppData(appName, defaultData) ==
    /\ last' = ToolCall("loadAppData", appName, defaultData,
                        loadAppData(localStorage, appName, defaultData))
    /\ UNCHANGED << localStorage, timers, autoSaveTimers, bursts, cloud >>
    /\ StoreUnchanged

\* half an auto-save delay passes
Tick ==
    /\ timers.now + autoSaveDelay \div 2 <= MaxTime
    /\ timers' = [timers EXCEPT !.now = @ + autoSaveDelay \div 2]
    /\ UNCHANGED << localStorage, last, autoSaveTimers, bursts, cloud >>
    /\ StoreUnchanged

\* the page of the tools: localStorage is available or not; the options of
\* the encrypted store, which ProductivityStorage does not use, are fixed
InitTools ==
    /\ Init
    /\ features.webCrypto /\ features.indexedDB
    /\ storageBackend = "localStorage"

\* tools call autoSave while time passes and the timers run
NextAutoSave ==
    \/ \E appName \in AppNames, d \in {2, 3} : AutoSave(appName, DataValues[d])
    \/ \E fails \in BOOLEAN : AutoSaveTimer(fails)
    \/ Tick

SpecAutoSave == InitTools /\ [][NextAutoSave]_vars

(***************************************************************************)
(* C31: auto-save debounce                                                 *)
(***************************************************************************)
\* the timer of appName and its entry in autoSaveTimers are as before the step
SameTimer(appName) ==
    /\ PendingAutoSaves(appName)' = PendingAutoSaves(appName)
    /\ (appName \in DOMAIN autoSaveTimers') = (appName \in DOMAIN autoSaveTimers)
    /\ appName \in DOMAIN autoSaveTimers
         => autoSaveTimers'[appName] = autoSaveTimers[appName]

\* C31: for each app name at most one auto-save timer is pending at any time;
\* when the autoSave calls of an app each came less than autoSaveDelay after
\* the one before, the one save made is saveAppData of the data of the last
\* call, not before one delay after that call, and it leaves no entry for the
\* app in autoSaveTimers; until that save is made, the timer kept for the app
\* is pending with the data of the last call and due one delay after it; a
\* call or a timer of one app leaves the pending timers of the other apps alone
Debounce_C31 ==
    /\ [](\A appName \in AppNames : Cardinality(PendingAutoSaves(appName)) <= 1)
    /\ []((last.op = "autoSaveTimer" /\ bursts[last.key].tight)
            => /\ SameValue(last.data, bursts[last.key].data)
               /\ bursts[last.key].saves = 1
               /\ timers.now >= bursts[last.key].at + autoSaveDelay
               /\ last.key \notin DOMAIN autoSaveTimers)
    /\ [][\A appName \in AppNames : appName # last'.key => SameTimer(appName)]_vars
    /\ [](\A appName \in AppNames :
            (~bursts[appName].done /\ bursts[appName].tight)
              => /\ appName \in DOMAIN autoSaveTimers
                 /\ \E t \in PendingAutoSaves(appName) :
                       /\ t.id = autoSaveTimers[appName]
                       /\ t.due = bursts[appName].at + autoSaveDelay
                       /\ SameValue(t.data, bursts[appName].data))

\* an auto-save was made after several autoSave calls of one app with
\* different data, while a timer of another app is pending
Debounce_C31_witness ==
    /\ last.op = "autoSaveTimer"
    /\ bursts[last.key].tight
    /\ bursts[last.key].calls >= 2
    /\ \E appName \in AppNames \ {last.key} : PendingAutoSaves(appName) # {}

(***************************************************************************)
(* C32: round trip of saveAppData and loadAppData                          *)
(***************************************************************************)
\* data of an app: 0, false, '', null, 'hi', {"a":1}
AppData ==
    << JSNum(0), JSBool(FALSE), JSStr(<< >>), JSNull, JSStr(<<104, 105>>),
       JSObj(<< << <<97>>, JSNum(1) >> >>) >>

\* tools save and load their data; the default is null or 'x'
NextAppData ==
    \/ \E appName \in AppNames, d \in DOMAIN AppData, fails \in BOOLEAN :
          SaveAppData(appName, AppData[d], fails)
    \/ \E appName \in AppNames, defaultData \in {JSNull, JSStr(<<120>>)} :
          LoadAppData(appName, defaultData)

SpecAppData == InitTools /\ [][NextAppData]_vars

\* C32: after saveAppData(app, d), loadAppData(app, def) returns d, also when
\* d is 0, false, the empty string or null, and the save leaves the entries
\* of the other app names as they were
AppDataRoundTrip_C32 ==
    /\ []((last.op = "loadAppData" /\ bursts[last.key].has)
            => SameValue(last.v, bursts[last.key].written))
    /\ [][last'.op = "saveAppData"
            => \A appName \in AppNames \ {last'.key} :
                  SameValue(Property(getAllData(localStorage'), appName),
                            Property(getAllData(localStorage), appName))]_vars

(***************************************************************************)
(* CloudStorageManager (cloud-auth.js, the first class of that name)       *)
(***************************************************************************)
\* the manager and the timers of its page, as a method finds them; a method
\* below returns both as it leaves them. The settings that saveCloudSettings
\* writes to the encrypted store are what a later initialize reads; they are
\* an input of initialize here. The callbacks of the timers call syncToCloud,
\* which changes none of the fields kept here (cloud-auth.js:479-511)
Page == [c |-> cloud, t |-> timers]

\* startAutoSync: clearInterval of the kept timer, autoSyncEnabled = true, a
\* timeout of 5 s for the first sync and an interval of syncFrequency minutes,
\* kept in autoSyncInterval
startAutoSync(m) ==
    [c |-> [m.c EXCEPT !.autoSyncEnabled = TRUE, !.autoSyncInterval = m.t.nextId + 1],
     t |-> [m.t EXCEPT
              !.nextId = @ + 2,
              !.active = {x \in @ : m.c.autoSyncInterval # 0 => x.id # m.c.autoSyncInterval}
                           \cup {[id |-> m.t.nextId, owner |-> "initialSync",
                                  app |-> << >>, data |-> JSNull,
                                  due |-> m.t.now + 5000],
                                 [id |-> m.t.nextId + 1, owner |-> "autoSync",
                                  app |-> << >>, data |-> JSNull,
                                  due |-> m.t.now + m.c.syncFrequency * 60 * 1000]}]]

\* stopAutoSync: clearInterval of the kept timer, autoSyncInterval = null,
\* autoSyncEnabled = false
stopAutoSync(m) ==
    [c |-> [m.c EXCEPT !.autoSyncEnabled = FALSE, !.autoSyncInterval = 0],
     t |-> [m.t EXCEPT
              !.active = {x \in @ : m.c.autoSyncInterval # 0 => x.id # m.c.autoSyncInterval}]]

\* setSyncFrequency
setSyncFrequency(m, minutes) ==
    IF m.c.autoSyncEnabled
    THEN startAutoSync(stopAutoSync([m EXCEPT !.c.syncFrequency = minutes]))
    ELSE [m EXCEPT !.c.syncFrequency = minutes]

\* setAutoSyncEnabled
setAutoSyncEnabled(m, enabled) ==
    IF enabled /\ m.c.isConnected
    THEN startAutoSync([m EXCEPT !.c.autoSyncEnabled = enabled])
    ELSE stopAutoSync([m EXCEPT !.c.autoSyncEnabled = enabled])

\* connectToCloud, by connectWithFileSystemAPI or connectWithEnhancedDownloadAPI:
\* isConnected = true, and setAutoSyncEnabled(true) if auto-sync is not
\* enabled. cancelled: the file picker of the first was dismissed, which
\* throws before any field is set
connectToCloud(m, cancelled) ==
    IF cancelled THEN m
    ELSE IF ~m.c.autoSyncEnabled
    THEN setAutoSyncEnabled([m EXCEPT !.c.isConnected = TRUE], TRUE)
    ELSE [m EXCEPT !.c.isConnected = TRUE]

\* disconnectFromCloud (cloud-auth.js:466-475)
disconnectFromCloud(m) == stopAutoSync([m EXCEPT !.c.isConnected = FALSE])

\* initialize, once loadCloudSettings has read the settings (none: nothing
\* was stored or the load failed): in a background iframe it connects and
\* starts auto-sync
initialized(m, background) ==
    IF background /\ ~m.c.isConnected
    THEN startAutoSync(setAutoSyncEnabled(connectToCloud(m, FALSE), TRUE))
    ELSE m

\* initialize: loadCloudSettings, startAutoSync if enabled and connected, then
\* the background iframe branch
initialize(m, settings, background) ==
    IF settings.has
    THEN initialized(
             IF settings.autoSyncEnabled /\ m.c.isConnected
             THEN startAutoSync([m EXCEPT !.c.autoSyncEnabled = settings.autoSyncEnabled,
                                          !.c.syncFrequency = settings.syncFrequency])
             ELSE [m EXCEPT !.c.autoSyncEnabled = settings.autoSyncEnabled,
                            !.c.syncFrequency = settings.syncFrequency],
             background)
    ELSE initialized(IF m.c.autoSyncEnabled /\ m.c.isConnected THEN startAutoSync(m) ELSE m,
                     background)

\* handleToggleAutoSync
handleToggleAutoSync(m) ==
    IF m.c.autoSyncEnabled THEN stopAutoSync(m) ELSE startAutoSync(m)

\* settings that loadEncrypted('cloud-settings') can return: none, or an
\* object whose autoSyncEnabled and syncFrequency are read
CloudSettings ==
    {[has |-> FALSE, autoSyncEnabled |-> FALSE, syncFrequency |-> 15]}
      \cup [has : {TRUE}, autoSyncEnabled : BOOLEAN, syncFrequency : {15, 30}]

\* a method of the manager was called and left the page as m
CloudCall(op, m) ==
    /\ m.t.nextId <= 2 * MaxSyncStarts + 1
    /\ cloud' = m.c
    /\ timers' = m.t
    /\ last' = ToolCall(op, << >>, JSNull, JSUndefined)
    /\ UNCHANGED << localStorage, autoSaveTimers, bursts >>
    /\ StoreUnchanged

\* the calls of the cloud panel and of the page start
NextCloud ==
    \/ \E settings \in CloudSettings, background \in BOOLEAN :
          CloudCall("initialize", initialize(Page, settings, background))
    \/ \E cancelled \in BOOLEAN : CloudCall("connectToCloud", connectToCloud(Page, cancelled))
    \/ CloudCall("disconnectFromCloud", disconnectFromCloud(Page))
    \/ \E enabled \in BOOLEAN :
          CloudCall("setAutoSyncEnabled", setAutoSyncEnabled(Page, enabled))
    \/ \E minutes \in {15, 30} :
          CloudCall("setSyncFrequency", setSyncFrequency(Page, minutes))
    \/ CloudCall("handleToggleAutoSync", handleToggleAutoSync(Page))

SpecCloud == InitTools /\ [][NextCloud]_vars

(***************************************************************************)
(* C33: the auto-sync timer matches the flags                              *)
(***************************************************************************)
\* the recurring auto-sync timers of the page
AutoSyncTimers == {x \in timers.active : x.owner = "autoSync"}

\* C33: after any sequence of initialize, connectToCloud, disconnectFromCloud,
\* setAutoSyncEnabled, setSyncFrequency and handleToggleAutoSync, a recurring
\* auto-sync timer is active (autoSyncInterval is not null) exactly when
\* isConnected and autoSyncEnabled are both true, and at most one recurring
\* timer is active
AutoSyncMatchesFlags_C33 ==
    /\ (cloud.autoSyncInterval # 0) <=> (cloud.isConnected /\ cloud.autoSyncEnabled)
    /\ (AutoSyncTimers # {}) <=> (cloud.isConnected /\ cloud.autoSyncEnabled)
    /\ Cardinality(AutoSyncTimers) <= 1

====
